---- MODULE Spec2Model ----
(***************************************************************************)
(* A model of the email cleanup agent: the four scoring agents and the     *)
(* decision node of core/multi_agent_orchestrator.py, the deletion manager *)
(* and backup manager of core/, and the approval handlers of               *)
(* telegram_bot/email_cleanup_bot.py.                                       *)
(*                                                                         *)
(* Text is a sequence of one-character strings.  The keyword tables of the *)
(* agents are not enumerated: what an agent finds in the subject, the body *)
(* preview or the sender address is an input of its node (a "view"), and   *)
(* what the language model answers is an input too.                        *)
(***************************************************************************)
EXTENDS Integers, Sequences, FiniteSets, TLC

VARIABLES
    \* ---- analysis pipeline (MultiAgentOrchestrator) ----
    node,               \* position in the LangGraph workflow
    email,              \* the email under analysis
    document_analysis,  \* EmailAnalysisState fields
    classification,
    spam_analysis,
    unwanted_analysis,
    final_decision,
    confidence,
    calls,              \* what the agents consulted for this email
    \* ---- deletion (DeletionManager, BackupManager, the mail store) ----
    clock,              \* datetime.now(), in ticks
    token,              \* outlook.token is set
    backups,            \* the backup directory: proposal id -> file content
    last_deletion,      \* DeletionManager.last_deletion: {} is None
    dpc,                \* position inside delete_emails
    frame,              \* arguments and locals of the delete_emails run
    ret,                \* what the last delete_emails call gave its caller
    delete_calls,       \* ids of the delete-by-id requests issued in this run
    runs,               \* delete_emails runs started so far
    \* ---- Telegram bot (EmailCleanupBot) ----
    current_proposal,   \* {} is None, else the one stored proposal
    deletion_manager,   \* bot.deletion_manager is set
    hpc,                \* "awaiting" while a handler is inside delete_emails
    update,             \* the command being handled, or handled last
    outbox,             \* the messages sent while handling it
    \* ---- batch_analyze and single calls ----
    batch,              \* the batch_analyze run: its emails, position, buckets
    invocation          \* the last call of an agent, a parser or the decision
                        \* node on its own: what it was given and what it gave

pipelineVars == <<node, email, document_analysis, classification, spam_analysis,
                  unwanted_analysis, final_decision, confidence, calls>>

deletionVars == <<clock, token, backups, last_deletion, dpc, frame, ret, delete_calls,
                  runs>>

botVars == <<current_proposal, deletion_manager, hpc, update, outbox>>

batchVars == <<batch>>

callVars == <<invocation>>

vars == <<pipelineVars, deletionVars, botVars, batchVars, callVars>>

-----------------------------------------------------------------------------
(* Text helpers: str.lower, str.strip, str.split(',').                      *)

LowerChar(c) == CASE c = "A" -> "a" [] c = "B" -> "b" [] OTHER -> c

Lower(s) == [i \in 1..Len(s) |-> LowerChar(s[i])]

RECURSIVE LStrip(_)
LStrip(s) == IF s # <<>> /\ Head(s) = " " THEN LStrip(Tail(s)) ELSE s

RECURSIVE RStrip(_)
RStrip(s) == IF s # <<>> /\ s[Len(s)] = " " THEN RStrip(SubSeq(s, 1, Len(s) - 1)) ELSE s

Strip(s) == RStrip(LStrip(s))

RECURSIVE Split(_)
Split(s) ==
    LET commas == {i \in 1..Len(s) : s[i] = ","}
    IN  IF commas = {} THEN <<s>>
        ELSE LET k == CHOOSE i \in commas : \A j \in commas : i <= j
             IN  <<SubSeq(s, 1, k - 1)>> \o Split(SubSeq(s, k + 1, Len(s)))

InList(x, list) == \E i \in 1..Len(list) : list[i] = x

-----------------------------------------------------------------------------
(* config/settings.py: the VIP allow-list.                                  *)

\* The VIP_EMAILS environment value " Ab ,,ba"
VIP_EMAILS_RAW == <<" ", "A", "b", " ", ",", ",", "b", "a">>

VIP_EMAILS ==
    LET parts == Split(VIP_EMAILS_RAW)
        kept  == SelectSeq(parts, LAMBDA e : Strip(e) # <<>>)
    IN  [i \in 1..Len(kept) |-> Lower(Strip(kept[i]))]

\* Sender addresses of the analysed emails: empty, VIP as configured, VIP in
\* another case, VIP with surrounding blanks, and two that are not VIP.
SenderAddresses ==
    { <<>>,
      <<"a", "b">>,
      <<"B", "A">>,
      <<" ", "a", "B", " ">>,
      <<"b">> }

-----------------------------------------------------------------------------
(* Values shared by the agents.                                             *)

Confidences == {"high", "medium", "low"}

Categories == {"urgent", "personal", "newsletter", "promotional", "informational", "spam"}

\* The JSON document the language model returns: error = the call or
\* json.loads raised; keys = the fields the document holds.
ResponseKeys == {"primary", "confidence", "reasoning"}

KeySets == {ResponseKeys} \cup {ResponseKeys \ {k} : k \in ResponseKeys}

LLMFailure(none) == [error |-> TRUE, keys |-> {}, primary |-> none, confidence |-> "none"]

LLMResponses(Primaries, none) ==
    {LLMFailure(none)} \cup
    { [error |-> FALSE, keys |-> K,
       primary |-> IF "primary" \in K THEN p ELSE none,
       confidence |-> IF "confidence" \in K THEN c ELSE "none"] :
         K \in KeySets, p \in Primaries, c \in Confidences }

-----------------------------------------------------------------------------
(* agents/document_preservation_agent.py                                    *)

\* What the document agent finds in the email: the subject and the body
\* preview are empty, hold no important keyword, or hold one; domain_match
\* says that the sender address holds one of important_domains.
TextKinds == {"empty", "plain", "keyword"}

DocViews == [subject : TextKinds, bodyPreview : TextKinds,
             hasAttachments : BOOLEAN, domain_match : BOOLEAN]

NoDocument == [keys |-> {}, should_preserve |-> FALSE, confidence |-> "none", method |-> "none"]

DocVerdict(preserve, conf, method) ==
    [keys |-> {"should_preserve", "confidence"}, should_preserve |-> preserve,
     confidence |-> conf, method |-> method]

\* is_vip_sender with the lower() call left out.
is_vip_sender_case_sensitive(sender_email) ==
    IF sender_email = <<>> \/ VIP_EMAILS = <<>> THEN FALSE
    ELSE InList(Strip(sender_email), VIP_EMAILS)

is_vip_sender(sender_email) ==
    IF sender_email = <<>> \/ VIP_EMAILS = <<>> THEN FALSE
    ELSE InList(Strip(Lower(sender_email)), VIP_EMAILS)

\* A (found, matches) pair for a non-empty text; a bare False, which the
\* caller cannot unpack, for an empty one.
contains_important_keywords(text) ==
    IF text = "empty" THEN [pair |-> FALSE, found |-> FALSE]
    ELSE [pair |-> TRUE, found |-> (text = "keyword")]

is_important_sender(sender_email, domain_match) ==
    IF sender_email = <<>> THEN FALSE ELSE domain_match

ai_classification(llm) ==
    IF llm.error THEN DocVerdict(TRUE, "low", "error_default")
    ELSE [keys |-> (IF "primary" \in llm.keys THEN {"should_preserve"} ELSE {})
                   \cup (IF "confidence" \in llm.keys THEN {"confidence"} ELSE {}),
          should_preserve |-> llm.primary,
          confidence |-> llm.confidence,
          method |-> "ai_classification"]

\* The result is [raised, verdict, calls]: raised = an exception left the
\* agent; calls = what the agent consulted.
analyze_email(mail, view, llm) ==
    IF is_vip_sender(mail.address)
    THEN [raised |-> FALSE, verdict |-> DocVerdict(TRUE, "high", "vip_contact"), calls |-> {}]
    ELSE
      LET subj == contains_important_keywords(view.subject)
          body == contains_important_keywords(view.bodyPreview)
          important == is_important_sender(mail.address, view.domain_match)
      IN  IF ~subj.pair \/ ~body.pair
          THEN [raised |-> TRUE, verdict |-> NoDocument, calls |-> {"doc.keywords"}]
          ELSE IF subj.found \/ (body.found /\ view.hasAttachments)
          THEN [raised |-> FALSE, verdict |-> DocVerdict(TRUE, "high", "keyword_match"),
                calls |-> {"doc.keywords"}]
          ELSE IF important /\ view.hasAttachments
          THEN [raised |-> FALSE, verdict |-> DocVerdict(TRUE, "high", "important_sender"),
                calls |-> {"doc.keywords"}]
          ELSE [raised |-> FALSE, verdict |-> ai_classification(llm),
                calls |-> {"doc.keywords", "doc.llm"}]

-----------------------------------------------------------------------------
(* agents/classifier_agent.py                                               *)

\* urgent: the subject holds an urgent keyword; automated: the sender address
\* holds an automated pattern; kind: what the automated email's text holds.
ClassifierViews == [urgent : BOOLEAN, automated : BOOLEAN,
                    kind : {"newsletter", "promotional", "other"}]

NoClassification == [keys |-> {}, category |-> "none", confidence |-> "none", method |-> "none"]

ClassVerdict(cat, conf, method) ==
    [keys |-> {"category", "confidence"}, category |-> cat, confidence |-> conf, method |-> method]

_classify_automated_email(view) ==
    IF view.kind = "newsletter" THEN ClassVerdict("newsletter", "high", "pattern_match")
    ELSE IF view.kind = "promotional" THEN ClassVerdict("promotional", "high", "pattern_match")
    ELSE ClassVerdict("informational", "medium", "pattern_match")

_ai_classification(llm) ==
    IF llm.error THEN ClassVerdict("informational", "low", "error_default")
    ELSE [keys |-> (IF "primary" \in llm.keys THEN {"category"} ELSE {})
                   \cup (IF "confidence" \in llm.keys THEN {"confidence"} ELSE {}),
          category |-> llm.primary,
          confidence |-> llm.confidence,
          method |-> "ai_classification"]

classify_email(view, llm) ==
    IF view.urgent
    THEN [verdict |-> ClassVerdict("urgent", "high", "keyword_match"), calls |-> {}]
    ELSE IF view.automated
    THEN [verdict |-> _classify_automated_email(view), calls |-> {}]
    ELSE [verdict |-> _ai_classification(llm), calls |-> {"classifier.llm"}]

-----------------------------------------------------------------------------
(* agents/spam_detector_agent.py                                            *)

\* The indicators detect_spam collects from the email.
SpamIndicators == [legitimate_sender : BOOLEAN, spam_phrases : BOOLEAN,
                   suspicious_sender : BOOLEAN, phishing_indicators : BOOLEAN]

NoSpam == [keys |-> {}, is_spam |-> FALSE, confidence |-> "none", spam_score |-> 0,
           method |-> "none"]

SpamVerdict(spam, conf, score, method) ==
    [keys |-> {"is_spam", "confidence"}, is_spam |-> spam, confidence |-> conf,
     spam_score |-> score, method |-> method]

calculate_spam_score(indicators) ==
    LET score == (IF indicators.spam_phrases THEN 40 ELSE 0)
               + (IF indicators.suspicious_sender THEN 35 ELSE 0)
               + (IF indicators.phishing_indicators THEN 25 ELSE 0)
               + (IF ~indicators.legitimate_sender THEN 10 ELSE 0)
    IN  [score |-> score,
         confidence |-> IF score >= 60 THEN "high" ELSE IF score >= 35 THEN "medium" ELSE "low"]

_ai_spam_detection(llm, indicators, spam_score) ==
    LET context_parts == indicators.spam_phrases \/ indicators.suspicious_sender
                         \/ indicators.phishing_indicators \/ indicators.legitimate_sender
        \* result['reasoning'] is read inside the try block
        key_error == context_parts /\ "reasoning" \notin llm.keys
    IN  IF llm.error \/ key_error
        THEN SpamVerdict(spam_score >= 50, "low", spam_score, "error_default")
        ELSE [keys |-> (IF "primary" \in llm.keys THEN {"is_spam"} ELSE {})
                       \cup (IF "confidence" \in llm.keys THEN {"confidence"} ELSE {}),
              is_spam |-> llm.primary,
              confidence |-> llm.confidence,
              spam_score |-> spam_score,
              method |-> "ai_spam_detection"]

\* detect_spam with the immediate answer given above 60 only.
detect_spam_above_60(indicators, llm) ==
    LET spam_score == calculate_spam_score(indicators).score
    IN  IF spam_score > 60
        THEN [verdict |-> SpamVerdict(TRUE, "high", spam_score, "pattern_detection"),
              calls |-> {}]
        ELSE IF 35 <= spam_score /\ spam_score <= 60
        THEN [verdict |-> _ai_spam_detection(llm, indicators, spam_score),
              calls |-> {"spam.llm"}]
        ELSE [verdict |-> SpamVerdict(FALSE, "high", spam_score, "pattern_detection"),
              calls |-> {}]

detect_spam(indicators, llm) ==
    LET spam_score == calculate_spam_score(indicators).score
    IN  IF spam_score >= 60
        THEN [verdict |-> SpamVerdict(TRUE, "high", spam_score, "pattern_detection"),
              calls |-> {}]
        ELSE IF 35 <= spam_score /\ spam_score < 60
        THEN [verdict |-> _ai_spam_detection(llm, indicators, spam_score),
              calls |-> {"spam.llm"}]
        ELSE [verdict |-> SpamVerdict(FALSE, "high", spam_score, "pattern_detection"),
              calls |-> {}]

-----------------------------------------------------------------------------
(* agents/unwanted_agent.py                                                 *)

\* Ages in days on both sides of each threshold of calculate_unwanted_score.
AgeSamples == {0, 180, 181, 365, 366, 730, 731}

\* The indicators analyze_unwanted collects from the email.
UnwantedIndicators == [newsletter : BOOLEAN, social : BOOLEAN, marketing : BOOLEAN,
                       event : BOOLEAN, age_days : AgeSamples, is_unread : BOOLEAN]

NoUnwanted == [keys |-> {}, is_unwanted |-> FALSE, confidence |-> "none",
               unwanted_score |-> 0, method |-> "none"]

UnwantedVerdict(unwanted, conf, score, method) ==
    [keys |-> {"is_unwanted", "confidence"}, is_unwanted |-> unwanted, confidence |-> conf,
     unwanted_score |-> score, method |-> method]

\* calculate_unwanted_score with the age thresholds met by the day itself.
calculate_unwanted_score_from_day(indicators) ==
    LET age_days == indicators.age_days
        score == (IF indicators.newsletter THEN 30 ELSE 0)
               + (IF indicators.social THEN 25 ELSE 0)
               + (IF indicators.marketing THEN 35 ELSE 0)
               + (IF indicators.event THEN 20 ELSE 0)
               + (IF age_days >= 730 THEN 40
                  ELSE IF age_days >= 365 THEN 25
                  ELSE IF age_days >= 180 THEN 15 ELSE 0)
               + (IF indicators.is_unread THEN 10 ELSE 0)
    IN  [score |-> score,
         confidence |-> IF score >= 70 THEN "high" ELSE IF score >= 40 THEN "medium" ELSE "low",
         reasons |-> score > 0]

calculate_unwanted_score(indicators) ==
    LET age_days == indicators.age_days
        score == (IF indicators.newsletter THEN 30 ELSE 0)
               + (IF indicators.social THEN 25 ELSE 0)
               + (IF indicators.marketing THEN 35 ELSE 0)
               + (IF indicators.event THEN 20 ELSE 0)
               + (IF age_days > 730 THEN 40
                  ELSE IF age_days > 365 THEN 25
                  ELSE IF age_days > 180 THEN 15 ELSE 0)
               + (IF indicators.is_unread THEN 10 ELSE 0)
    IN  [score |-> score,
         confidence |-> IF score >= 70 THEN "high" ELSE IF score >= 40 THEN "medium" ELSE "low",
         reasons |-> score > 0]

\* _ai_react_reasoning falling back on is_unwanted = (unwanted_score >= 50).
_ai_react_reasoning_from_50(llm, unwanted_score, reasons) ==
    LET key_error == reasons /\ "reasoning" \notin llm.keys
    IN  IF llm.error \/ key_error
        THEN UnwantedVerdict(unwanted_score >= 50, "low", unwanted_score, "error_default")
        ELSE [keys |-> (IF "primary" \in llm.keys THEN {"is_unwanted"} ELSE {})
                       \cup (IF "confidence" \in llm.keys THEN {"confidence"} ELSE {}),
              is_unwanted |-> llm.primary,
              confidence |-> llm.confidence,
              unwanted_score |-> unwanted_score,
              method |-> "ai_react_reasoning"]

_ai_react_reasoning(llm, unwanted_score, reasons) ==
    LET key_error == reasons /\ "reasoning" \notin llm.keys
    IN  IF llm.error \/ key_error
        THEN UnwantedVerdict(unwanted_score >= 55, "low", unwanted_score, "error_default")
        ELSE [keys |-> (IF "primary" \in llm.keys THEN {"is_unwanted"} ELSE {})
                       \cup (IF "confidence" \in llm.keys THEN {"confidence"} ELSE {}),
              is_unwanted |-> llm.primary,
              confidence |-> llm.confidence,
              unwanted_score |-> unwanted_score,
              method |-> "ai_react_reasoning"]

analyze_unwanted(indicators, llm) ==
    LET scored == calculate_unwanted_score(indicators)
        unwanted_score == scored.score
    IN  IF unwanted_score >= 70
        THEN [verdict |-> UnwantedVerdict(TRUE, "high", unwanted_score, "pattern_detection"),
              calls |-> {}]
        ELSE IF 40 <= unwanted_score /\ unwanted_score < 70
        THEN [verdict |-> _ai_react_reasoning(llm, unwanted_score, scored.reasons),
              calls |-> {"unwanted.llm"}]
        ELSE [verdict |-> UnwantedVerdict(FALSE, "high", unwanted_score, "pattern_detection"),
              calls |-> {}]

-----------------------------------------------------------------------------
(* core/multi_agent_orchestrator.py                                         *)

Decision(d, c) == [raised |-> FALSE, final_decision |-> d, confidence |-> c]

\* A KeyError: a verdict lacks the field the node reads.
DecisionRaised == [raised |-> TRUE, final_decision |-> "", confidence |-> ""]

\* A list that lets the spam category be deleted as well.
DeletableCategories_with_spam == {"newsletter", "promotional", "informational", "spam"}

DeletableCategories == {"newsletter", "promotional", "informational"}

\* _decision_node with the unwanted rule tested before the spam rule.
_decision_node_unwanted_first(doc, cls, spam, unw) ==
    IF doc.should_preserve THEN Decision("preserve", doc.confidence)
    ELSE IF cls.category \in {"urgent", "personal"}
    THEN Decision("preserve", cls.confidence)
    ELSE IF unw.is_unwanted
    THEN IF "confidence" \notin unw.keys THEN DecisionRaised
         ELSE IF unw.confidence = "high" /\ cls.category \in DeletableCategories
         THEN Decision("delete", "high")
         ELSE Decision("review", "medium")
    ELSE IF spam.is_spam
    THEN IF "confidence" \in spam.keys THEN Decision("review", spam.confidence)
         ELSE DecisionRaised
    ELSE IF \E v \in {doc, cls, spam, unw} : "confidence" \notin v.keys
    THEN DecisionRaised
    ELSE IF doc.confidence = "low" \/ cls.confidence = "low"
            \/ spam.confidence = "low" \/ unw.confidence = "low"
    THEN Decision("review", "low")
    ELSE Decision("preserve", "medium")

\* _decision_node with the low-confidence rule tested before the unwanted rule.
_decision_node_low_first(doc, cls, spam, unw) ==
    IF doc.should_preserve
    THEN IF "confidence" \in doc.keys THEN Decision("preserve", doc.confidence)
         ELSE DecisionRaised
    ELSE IF spam.is_spam
    THEN IF "confidence" \in spam.keys THEN Decision("review", spam.confidence)
         ELSE DecisionRaised
    ELSE IF cls.category \in {"urgent", "personal"}
    THEN Decision("preserve", cls.confidence)
    ELSE IF \E v \in {doc, cls, spam, unw} : "confidence" \notin v.keys
    THEN DecisionRaised
    ELSE IF doc.confidence = "low" \/ cls.confidence = "low"
            \/ spam.confidence = "low" \/ unw.confidence = "low"
    THEN Decision("review", "low")
    ELSE IF unw.is_unwanted
    THEN IF unw.confidence = "high" /\ cls.category \in DeletableCategories
         THEN Decision("delete", "high")
         ELSE Decision("review", "medium")
    ELSE Decision("preserve", "medium")

_decision_node(doc, cls, spam, unw) ==
    IF "should_preserve" \notin doc.keys THEN DecisionRaised
    ELSE IF doc.should_preserve
    THEN \* Rule 1
         IF "confidence" \in doc.keys THEN Decision("preserve", doc.confidence)
         ELSE DecisionRaised
    ELSE IF "is_spam" \notin spam.keys THEN DecisionRaised
    ELSE IF spam.is_spam
    THEN \* Rule 2
         IF "confidence" \in spam.keys THEN Decision("review", spam.confidence)
         ELSE DecisionRaised
    ELSE IF "category" \notin cls.keys THEN DecisionRaised
    ELSE IF cls.category \in {"urgent", "personal"}
    THEN \* Rule 3
         IF "confidence" \in cls.keys THEN Decision("preserve", cls.confidence)
         ELSE DecisionRaised
    ELSE IF "is_unwanted" \notin unw.keys THEN DecisionRaised
    ELSE IF unw.is_unwanted /\ ~doc.should_preserve
    THEN \* Rule 4
         IF "confidence" \notin unw.keys THEN DecisionRaised
         ELSE IF unw.confidence = "high" /\ cls.category \in DeletableCategories
         THEN Decision("delete", "high")
         ELSE Decision("review", "medium")
    ELSE IF \E v \in {doc, cls, spam, unw} : "confidence" \notin v.keys
    THEN DecisionRaised
    ELSE IF doc.confidence = "low" \/ cls.confidence = "low"
            \/ spam.confidence = "low" \/ unw.confidence = "low"
    THEN \* Rule 5
         Decision("review", "low")
    ELSE \* Rule 6
         Decision("preserve", "medium")

Emails == [address : SenderAddresses]

NoEmail == [address |-> <<>>]

\* What each agent can answer for an email, over everything it can find in
\* the email and everything the language model can return.
DocumentResults(mail) ==
    {analyze_email(mail, view, llm) : view \in DocViews, llm \in LLMResponses(BOOLEAN, FALSE)}

ClassifierResults ==
    {classify_email(view, llm) : view \in ClassifierViews, llm \in LLMResponses(Categories, "none")}

SpamResults ==
    {detect_spam(indicators, llm) :
        indicators \in SpamIndicators, llm \in LLMResponses(BOOLEAN, FALSE)}

UnwantedResults ==
    {analyze_unwanted(indicators, llm) :
        indicators \in UnwantedIndicators, llm \in LLMResponses(BOOLEAN, FALSE)}

\* EmailAnalysisState keeps of the spam and unwanted verdicts what the
\* decision rules read, and the method; the scores go to the reasoning text.
SpamState(v) ==
    [keys |-> v.keys, is_spam |-> v.is_spam, confidence |-> v.confidence, method |-> v.method]

UnwantedState(v) ==
    [keys |-> v.keys, is_unwanted |-> v.is_unwanted, confidence |-> v.confidence,
     method |-> v.method]

\* analyze_email: the initial state of the workflow for one email.
orchestrator_analyze_email ==
    /\ UNCHANGED <<deletionVars, botVars, batchVars, callVars>>
    /\ node \in {"idle", "END", "raised"}
    /\ \E mail \in Emails : email' = mail
    /\ node' = "document_agent"
    /\ document_analysis' = NoDocument
    /\ classification' = NoClassification
    /\ spam_analysis' = SpamState(NoSpam)
    /\ unwanted_analysis' = UnwantedState(NoUnwanted)
    /\ final_decision' = ""
    /\ confidence' = ""
    /\ calls' = {}

_document_node ==
    /\ UNCHANGED <<deletionVars, botVars, batchVars, callVars>>
    /\ node = "document_agent"
    /\ \E r \in DocumentResults(email) :
         /\ calls' = calls \cup r.calls
         /\ IF r.raised \/ "should_preserve" \notin r.verdict.keys
            THEN /\ node' = "raised"
                 /\ UNCHANGED document_analysis
            ELSE /\ node' = "classifier"
                 /\ document_analysis' = r.verdict
    /\ UNCHANGED <<email, classification, spam_analysis, unwanted_analysis,
                   final_decision, confidence>>

_classifier_node ==
    /\ UNCHANGED <<deletionVars, botVars, batchVars, callVars>>
    /\ node = "classifier"
    /\ \E r \in ClassifierResults :
         /\ calls' = calls \cup r.calls
         /\ IF r.verdict.keys # {"category", "confidence"}
            THEN /\ node' = "raised"
                 /\ UNCHANGED classification
            ELSE /\ node' = "spam_detector"
                 /\ classification' = r.verdict
    /\ UNCHANGED <<email, document_analysis, spam_analysis, unwanted_analysis,
                   final_decision, confidence>>

_spam_node ==
    /\ UNCHANGED <<deletionVars, botVars, batchVars, callVars>>
    /\ node = "spam_detector"
    /\ \E r \in SpamResults :
         /\ calls' = calls \cup r.calls
         /\ IF "is_spam" \notin r.verdict.keys
            THEN /\ node' = "raised"
                 /\ UNCHANGED spam_analysis
            ELSE /\ node' = "unwanted_agent"
                 /\ spam_analysis' = SpamState(r.verdict)
    /\ UNCHANGED <<email, document_analysis, classification, unwanted_analysis,
                   final_decision, confidence>>

_unwanted_node ==
    /\ UNCHANGED <<deletionVars, botVars, batchVars, callVars>>
    /\ node = "unwanted_agent"
    /\ \E r \in UnwantedResults :
         /\ calls' = calls \cup r.calls
         /\ IF "is_unwanted" \notin r.verdict.keys
            THEN /\ node' = "raised"
                 /\ UNCHANGED unwanted_analysis
            ELSE /\ node' = "decision_maker"
                 /\ unwanted_analysis' = UnwantedState(r.verdict)
    /\ UNCHANGED <<email, document_analysis, classification, spam_analysis,
                   final_decision, confidence>>

decision_maker ==
    /\ UNCHANGED <<deletionVars, botVars, batchVars, callVars>>
    /\ node = "decision_maker"
    /\ LET r == _decision_node(document_analysis, classification, spam_analysis,
                               unwanted_analysis)
       IN  IF r.raised
           THEN /\ node' = "raised"
                /\ UNCHANGED <<final_decision, confidence>>
           ELSE /\ node' = "END"
                /\ final_decision' = r.final_decision
                /\ confidence' = r.confidence
    /\ UNCHANGED <<email, document_analysis, classification, spam_analysis,
                   unwanted_analysis, calls>>

InitAnalysis ==
    /\ node = "idle"
    /\ email = NoEmail
    /\ document_analysis = NoDocument
    /\ classification = NoClassification
    /\ spam_analysis = SpamState(NoSpam)
    /\ unwanted_analysis = UnwantedState(NoUnwanted)
    /\ final_decision = ""
    /\ confidence = ""
    /\ calls = {}

NextAnalysis ==
    \/ orchestrator_analyze_email
    \/ _document_node
    \/ _classifier_node
    \/ _spam_node
    \/ _unwanted_node
    \/ decision_maker

-----------------------------------------------------------------------------
(* Deletion: DeletionManager over the BackupManager and the mail store.     *)

MaxClock == 1          \* last tick of the clock

\* strftime keeps whole seconds of datetime.now(): two readings share one.
TicksPerSecond == 2

MaxRuns == 2           \* delete_emails runs on a list that is not empty

\* email.get('subject', 'No Subject')[:50]
SubjectCut == 50

NoSubject == <<"N", "o", " ", "S", "u", "b", "j", "e", "c", "t">>

LongSubject == [k \in 1..(SubjectCut + 1) |-> "x"]

\* The lists a caller or a proposal hands over: none, one email that has no
\* subject, and two emails with the one of the longer subject first.
EmailLists ==
    { <<>>,
      <<[id |-> 3]>>,
      <<[id |-> 2, subject |-> LongSubject], [id |-> 1, subject |-> <<"h", "i">>]>> }

\* dict.get(key, default)
Get(d, key, default) == IF key \in DOMAIN d THEN d[key] ELSE default

\* The subject goes into the error entry whole.
Prefix_whole(s, n) == s

\* s[:n]
Prefix(s, n) == IF Len(s) <= n THEN s ELSE SubSeq(s, 1, n)

\* datetime.now().strftime('%Y%m%d_%H%M%S'): the second the tick falls into.
Strftime(t) == t \div TicksPerSecond

ProposalIds == { Strftime(t) : t \in 0..MaxClock }

\* An inbox count is {} (None) or {n}.
OtherBefore == {4}

OtherAfter == {0, 3}

TotalCounts == {5}

Truthy(count) == count # {} /\ count # {0}

\* round(x, 2) of x = num / den * 100, in hundredths, ties to even.
Round2(num, den) ==
    LET n == num * 10000
        q == n \div den
        r == n - q * den
    IN  IF 2 * r < den THEN q
        ELSE IF 2 * r > den THEN q + 1
        ELSE IF q % 2 = 0 THEN q ELSE q + 1

\* What delete_emails has handed back: nothing yet, a value, None, or it raised.
NotReturned == [kind |-> "none", value |-> {}]

Returned(v) == [kind |-> "value", value |-> {v}]

ReturnedNone == [kind |-> "None", value |-> {}]

Raised == [kind |-> "raised", value |-> {}]

\* return {'success': 0, 'failed': 0, 'errors': []}
EmptyResult == [success |-> 0, failed |-> 0, errors |-> <<>>]

NoFrame ==
    [emails |-> <<>>, proposal_id |-> 0, create_backup |-> FALSE,
     other_before |-> {}, total_before |-> {}, backup_file |-> {},
     results |-> {}, i |-> 1, outcomes |-> <<>>, called |-> {}]

\* BackupManager.create_backup: the content written to backup_<proposal_id>.json.
backup_data(emails, proposal_id) ==
    [complete |-> TRUE, proposal_id |-> proposal_id,
     email_count |-> Len(emails), emails |-> emails]

\* The file as open(..., 'w') leaves it when the dump that follows fails.
truncated_file(proposal_id) ==
    [complete |-> FALSE, proposal_id |-> proposal_id,
     email_count |-> 0, emails |-> <<>>]

\* The call reports a backup file and writes none.
create_backup_unwritten(emails, proposal_id, outcome) ==
    [raised |-> outcome # "written", files |-> backups]

\* create_backup(emails, proposal_id): the directory afterwards, and whether
\* the call raised.  open(backup_file, 'w') replaces a file of that name.
create_backup(emails, proposal_id, outcome) ==
    CASE outcome = "written" ->
            [raised |-> FALSE,
             files |-> (proposal_id :> backup_data(emails, proposal_id)) @@ backups]
      [] outcome = "open_failed" ->
            [raised |-> TRUE, files |-> backups]
      [] OTHER ->
            [raised |-> TRUE,
             files |-> (proposal_id :> truncated_file(proposal_id)) @@ backups]

BackupOutcomes == {"written", "open_failed", "dump_failed"}

\* get_inbox_count: None without a token, else what the request gives.
get_inbox_count(has_token, Counts) ==
    IF has_token THEN {{}} \cup { {n} : n \in Counts } ELSE {{}}

\* _ensure_valid_token: a silent refresh that succeeds stores a new token, one
\* that fails or raises leaves outlook.token as it was.
_ensure_valid_token(refreshed) == token \/ refreshed

DeleteStatuses == {"204", "404", "exception"}

\* _delete_single_email: without a token no request goes out; with one, only
\* status 204 counts as deleted, any other status or exception gives False.
_delete_single_email(status) ==
    [issued |-> token, success |-> token /\ status = "204"]

\* delete_emails, lines 97-105: the results before the loop.
InitialResults(f, backup_file) ==
    [proposal_id |-> f.proposal_id, backup_file |-> backup_file,
     total |-> Len(f.emails), success |-> 0, failed |-> 0, errors |-> <<>>,
     deleted_ids |-> <<>>, stats |-> {}]

\* delete_emails, lines 74-84: the token is refreshed, the proposal id
\* defaults to the current second and the two counts are requested.
delete_emails_start(emails, proposal_id, with_backup) ==
    /\ runs < MaxRuns
    /\ runs' = runs + 1
    /\ \E refreshed \in BOOLEAN :
         /\ token' = _ensure_valid_token(refreshed)
         /\ \E ob \in get_inbox_count(token', OtherBefore),
               tb \in get_inbox_count(token', TotalCounts) :
              frame' = [NoFrame EXCEPT
                          !.emails = emails,
                          !.proposal_id = IF proposal_id = {} THEN Strftime(clock)
                                          ELSE CHOOSE p \in proposal_id : TRUE,
                          !.create_backup = with_backup,
                          !.other_before = ob,
                          !.total_before = tb,
                          !.called = {"_ensure_valid_token", "get_inbox_count"}]
    /\ dpc' = "backup"
    /\ ret' = NotReturned
    /\ delete_calls' = <<>>
    /\ UNCHANGED <<clock, backups, last_deletion>>

\* The token is refreshed before the list is looked at.
delete_emails_refresh_first(emails, proposal_id, with_backup) ==
    IF emails = <<>>
    THEN /\ ret' = Returned(EmptyResult)
         /\ \E refreshed \in BOOLEAN : token' = _ensure_valid_token(refreshed)
         /\ UNCHANGED <<clock, backups, last_deletion, dpc, frame, delete_calls, runs>>
    ELSE delete_emails_start(emails, proposal_id, with_backup)

\* delete_emails(emails, proposal_id, create_backup) up to the backup: an
\* empty list returns at once, before anything else is done.
delete_emails(emails, proposal_id, with_backup) ==
    IF emails = <<>>
    THEN /\ ret' = Returned(EmptyResult)
         /\ UNCHANGED <<clock, token, backups, last_deletion, dpc, frame, delete_calls, runs>>
    ELSE delete_emails_start(emails, proposal_id, with_backup)

\* delete_emails, lines 89-105: the backup, then the empty results.  An
\* exception of create_backup leaves delete_emails.
delete_emails_backup ==
    /\ UNCHANGED <<pipelineVars, botVars, batchVars, callVars>>
    /\ dpc = "backup"
    /\ IF frame.create_backup
       THEN \E outcome \in BackupOutcomes :
              LET r == create_backup(frame.emails, frame.proposal_id, outcome)
                  f == [frame EXCEPT !.called = @ \cup {"create_backup"}]
              IN  /\ backups' = r.files
                  /\ IF r.raised
                     THEN /\ dpc' = "idle"
                          /\ ret' = Raised
                          /\ frame' = NoFrame
                     ELSE /\ dpc' = "loop"
                          /\ ret' = ret
                          /\ frame' = [f EXCEPT
                                         !.backup_file = {frame.proposal_id},
                                         !.results = {InitialResults(frame, {frame.proposal_id})}]
       ELSE /\ dpc' = "loop"
            /\ frame' = [frame EXCEPT !.results = {InitialResults(frame, {})}]
            /\ UNCHANGED <<backups, ret>>
    /\ UNCHANGED <<clock, token, last_deletion, delete_calls, runs>>

\* A loop that gives up at the first delete that does not succeed.
delete_emails_loop_stopping ==
    /\ UNCHANGED <<pipelineVars, botVars, batchVars, callVars>>
    /\ dpc = "loop"
    /\ frame.i <= Len(frame.emails)
    /\ \E status \in DeleteStatuses :
         LET mail == frame.emails[frame.i]
             email_id == mail.id
             subject == Prefix(Get(mail, "subject", NoSubject), SubjectCut)
             d == _delete_single_email(status)
             results == CHOOSE r \in frame.results : TRUE
             after ==
                 IF d.success
                 THEN [results EXCEPT !.success = @ + 1,
                                      !.deleted_ids = Append(@, email_id)]
                 ELSE [results EXCEPT !.failed = @ + 1,
                                      !.errors = Append(@, [email_id |-> email_id,
                                                            subject |-> subject,
                                                            error |-> "Delete failed"])]
         IN  /\ delete_calls' = IF d.issued THEN Append(delete_calls, email_id)
                                ELSE delete_calls
             /\ frame' = [frame EXCEPT !.results = {after},
                                       !.i = IF d.success THEN @ + 1
                                             ELSE Len(frame.emails) + 1,
                                       !.outcomes = Append(@, d.success),
                                       !.called = @ \cup {"_delete_single_email"}]
    /\ UNCHANGED <<clock, token, backups, last_deletion, dpc, ret, runs>>

\* One turn of the loop of lines 109-129.
delete_emails_loop ==
    /\ UNCHANGED <<pipelineVars, botVars, batchVars, callVars>>
    /\ dpc = "loop"
    /\ frame.i <= Len(frame.emails)
    /\ \E status \in DeleteStatuses :
         LET mail == frame.emails[frame.i]
             email_id == mail.id
             subject == Prefix(Get(mail, "subject", NoSubject), SubjectCut)
             d == _delete_single_email(status)
             results == CHOOSE r \in frame.results : TRUE
             after ==
                 IF d.success
                 THEN [results EXCEPT !.success = @ + 1,
                                      !.deleted_ids = Append(@, email_id)]
                 ELSE [results EXCEPT !.failed = @ + 1,
                                      !.errors = Append(@, [email_id |-> email_id,
                                                            subject |-> subject,
                                                            error |-> "Delete failed"])]
         IN  /\ delete_calls' = IF d.issued THEN Append(delete_calls, email_id)
                                ELSE delete_calls
             /\ frame' = [frame EXCEPT !.results = {after},
                                       !.i = @ + 1,
                                       !.outcomes = Append(@, d.success),
                                       !.called = @ \cup {"_delete_single_email"}]
    /\ UNCHANGED <<clock, token, backups, last_deletion, dpc, ret, runs>>

\* delete_emails, lines 131-162: the counts after the deletion, the
\* statistics, last_deletion, and the return statement inside the last if.
delete_emails_finish ==
    /\ UNCHANGED <<pipelineVars, botVars, batchVars, callVars>>
    /\ dpc = "loop"
    /\ frame.i > Len(frame.emails)
    /\ \E other_after \in get_inbox_count(token, OtherAfter),
          total_after \in get_inbox_count(token, TotalCounts) :
         LET counted == /\ Truthy(frame.other_before)
                        /\ Truthy(other_after)
                        /\ Truthy(frame.total_before)
                        /\ Truthy(total_after)
             n(count) == CHOOSE k \in count : TRUE
             stats ==
                 IF counted
                 THEN {[other_before |-> n(frame.other_before),
                        other_after |-> n(other_after),
                        total_before |-> n(frame.total_before),
                        total_after |-> n(total_after),
                        progress |-> Round2(n(frame.other_before) - n(other_after),
                                            n(frame.total_before))]}
                 ELSE {}
             results == [(CHOOSE r \in frame.results : TRUE) EXCEPT !.stats = stats]
         IN  /\ frame' = NoFrame
             /\ last_deletion' = {results}
             /\ ret' = IF counted THEN Returned(results) ELSE ReturnedNone
    /\ dpc' = "idle"
    /\ UNCHANGED <<clock, token, backups, delete_calls, runs>>

\* Some code outside the bot calls delete_emails.
client_delete_emails ==
    /\ dpc = "idle"
    /\ hpc = "idle"
    /\ \E emails \in EmailLists,
          proposal_id \in {{}} \cup { {p} : p \in ProposalIds },
          with_backup \in BOOLEAN :
         delete_emails(emails, proposal_id, with_backup)
    /\ UNCHANGED <<pipelineVars, botVars, batchVars, callVars>>

\* The process dies while delete_emails is running.
process_killed ==
    /\ dpc \in {"backup", "loop"}
    /\ dpc' = "killed"
    /\ UNCHANGED <<clock, token, backups, last_deletion, frame, ret, delete_calls, runs>>
    /\ UNCHANGED <<pipelineVars, botVars, batchVars, callVars>>

\* Time passes.
Tick ==
    /\ dpc # "killed"
    /\ clock < MaxClock
    /\ clock' = clock + 1
    /\ UNCHANGED <<token, backups, last_deletion, dpc, frame, ret, delete_calls, runs>>
    /\ UNCHANGED <<pipelineVars, botVars, batchVars, callVars>>

InitDeletion ==
    /\ clock = 0
    /\ token \in BOOLEAN
    /\ backups = <<>>
    /\ last_deletion = {}
    /\ dpc = "idle"
    /\ frame = NoFrame
    /\ ret = NotReturned
    /\ delete_calls = <<>>
    /\ runs = 0

NextDelete ==
    \/ client_delete_emails
    \/ delete_emails_backup
    \/ delete_emails_loop
    \/ delete_emails_finish
    \/ process_killed
    \/ Tick
-----------------------------------------------------------------------------
(* Telegram bot: EmailCleanupBot.  A command arrives as the text that       *)
(* follows the command word, <<>> when nothing follows it.                  *)

\* str.split(sep)
RECURSIVE SplitOn(_, _)
SplitOn(s, sep) ==
    LET at == {i \in 1..Len(s) : s[i] = sep}
    IN  IF at = {} THEN <<s>>
        ELSE LET k == CHOOSE i \in at : \A j \in at : i <= j
             IN  <<SubSeq(s, 1, k - 1)>> \o SplitOn(SubSeq(s, k + 1, Len(s)), sep)

\* str.split(): the words between runs of blanks.
Words(s) == SelectSeq(SplitOn(s, " "), LAMBDA w : w # <<>>)

Digits == <<"0", "1", "2", "3", "4", "5", "6", "7", "8", "9">>

IsDigit(c) == \E k \in 1..Len(Digits) : Digits[k] = c

DigitValue(c) == (CHOOSE k \in 1..Len(Digits) : Digits[k] = c) - 1

RECURSIVE DigitsValue(_)
DigitsValue(s) ==
    IF s = <<>> THEN 0
    ELSE DigitsValue(SubSeq(s, 1, Len(s) - 1)) * 10 + DigitValue(s[Len(s)])

\* int(text) succeeds: blanks around an optional sign and at least one digit.
IsInt(text) ==
    LET t == Strip(text)
        d == IF t # <<>> /\ Head(t) \in {"-", "+"} THEN Tail(t) ELSE t
    IN  d # <<>> /\ \A k \in 1..Len(d) : IsDigit(d[k])

\* int(text)
ToInt(text) ==
    LET t == Strip(text)
    IN  IF Head(t) = "-" THEN 0 - DigitsValue(Tail(t))
        ELSE IF Head(t) = "+" THEN DigitsValue(Tail(t))
        ELSE DigitsValue(t)

\* sorted(list(numbers))
RECURSIVE Sorted(_)
Sorted(numbers) ==
    IF numbers = {} THEN <<>>
    ELSE LET least == CHOOSE n \in numbers : \A m \in numbers : n <= m
         IN  <<least>> \o Sorted(numbers \ {least})

\* parse_except_command: every piece must be an integer, else the list is
\* empty; the pieces are divided by commas if there is one, by blanks if not.
parse_except_command(arg) ==
    LET numbers_part == Strip(arg)
        pieces == IF InList(",", numbers_part) THEN SplitOn(numbers_part, ",")
                  ELSE Words(numbers_part)
    IN  IF \A k \in 1..Len(pieces) : IsInt(pieces[k])
        THEN [k \in 1..Len(pieces) |-> ToInt(pieces[k])]
        ELSE <<>>

\* A range start-end read as leaving out its end.
PartNumbers_half_open(part) ==
    LET p == Strip(part)
        ends == SplitOn(p, "-")
    IN  IF InList("-", p)
        THEN IF Len(ends) = 2 /\ IsInt(ends[1]) /\ IsInt(ends[2])
             THEN ToInt(ends[1])..(ToInt(ends[2]) - 1)
             ELSE {}
        ELSE IF IsInt(p) THEN {ToInt(p)} ELSE {}

\* The numbers one comma-separated part of parse_number_range contributes:
\* a range start-end, a single number, or nothing when it does not parse.
PartNumbers(part) ==
    LET p == Strip(part)
        ends == SplitOn(p, "-")
    IN  IF InList("-", p)
        THEN IF Len(ends) = 2 /\ IsInt(ends[1]) /\ IsInt(ends[2])
             THEN ToInt(ends[1])..ToInt(ends[2])
             ELSE {}
        ELSE IF IsInt(p) THEN {ToInt(p)} ELSE {}

\* parse_number_range: the sorted numbers of all parts that parse.
parse_number_range(arg) ==
    IF arg = <<>>
    THEN <<>>
    ELSE LET parts == SplitOn(arg, ",")
         IN  Sorted(UNION { PartNumbers(parts[k]) : k \in 1..Len(parts) })

\* The comprehension with the emails numbered from 0.
Filter_from_zero(all_emails, indices, keep) ==
    LET chosen == SelectSeq([k \in 1..Len(all_emails) |-> k],
                            LAMBDA k : InList(k - 1, indices) = keep)
    IN  [k \in 1..Len(chosen) |-> all_emails[chosen[k]]]

\* [email for i, email in enumerate(all_emails, 1) if i in indices] (keep =
\* TRUE) or if i not in indices (keep = FALSE).
Filter(all_emails, indices, keep) ==
    LET chosen == SelectSeq([k \in 1..Len(all_emails) |-> k],
                            LAMBDA k : InList(k, indices) = keep)
    IN  [k \in 1..Len(chosen) |-> all_emails[chosen[k]]]

\* The arguments the user types after /delete_only and /except.
ArgTexts ==
    { <<>>,
      <<"1">>,
      <<"1", "-", "2">>,
      <<"1", ",", "x">>,
      <<"3">> }

\* A message the bot sent: its kind and the two numbers it states.
Message(kind, n, m) == [kind |-> kind, n |-> n, m |-> m]

NoActiveProposal == Message("no_active_proposal", 0, 0)

NotInitialized == Message("deletion_manager_not_initialized", 0, 0)

DeletionFailed == Message("error_deletion_failed", 0, 0)

\* The update being handled, or handled last: the command, the argument the
\* handler read from update.message.text, whether a proposal was live when
\* it arrived, what the handler called and returned.
Update(cmd) ==
    [cmd |-> cmd, arg |-> <<>>, live |-> current_proposal # {}, calls |-> {},
     returned |-> TRUE]

NoUpdate ==
    [cmd |-> "none", arg |-> <<>>, live |-> FALSE, calls |-> {}, returned |-> TRUE]

\* results['errors'][:5]
ErrorsShown == 5

Proposal == CHOOSE p \in current_proposal : TRUE

\* send_confirmation(action, count, excluded)
send_confirmation(action, count, excluded) ==
    IF action = "partial"
    THEN Message("partial", count - Len(excluded), Len(excluded))
    ELSE Message(action, count, 0)

\* send_proposal: the proposal is stored, then the message is sent; a send
\* that fails is caught and False is returned.
send_proposal ==
    /\ hpc = "idle"
    /\ dpc = "idle"
    /\ \E emails_to_delete \in EmailLists, delivered \in BOOLEAN :
         /\ current_proposal' = {[emails |-> emails_to_delete, timestamp |-> clock]}
         /\ outbox' = IF delivered
                      THEN <<Message("proposal", Len(emails_to_delete), 0)>>
                      ELSE <<>>
         /\ update' = [Update("send_proposal") EXCEPT !.returned = delivered]
    /\ UNCHANGED <<deletion_manager, hpc>>
    /\ UNCHANGED <<pipelineVars, deletionVars, batchVars, callVars>>

\* bot_runner.main: bot.deletion_manager = deletion_manager
set_deletion_manager ==
    /\ hpc = "idle"
    /\ dpc = "idle"
    /\ ~deletion_manager
    /\ deletion_manager' = TRUE
    /\ UNCHANGED <<current_proposal, hpc, update, outbox>>
    /\ UNCHANGED <<pipelineVars, deletionVars, batchVars, callVars>>

\* The handler returns without a reply.
ReplyNoActiveProposal_silent(cmd) ==
    /\ update' = Update(cmd)
    /\ outbox' = <<>>
    /\ UNCHANGED <<current_proposal, deletion_manager, hpc>>
    /\ UNCHANGED deletionVars

\* The handler replies that no proposal is active and returns.
ReplyNoActiveProposal(cmd) ==
    /\ update' = Update(cmd)
    /\ outbox' = <<NoActiveProposal>>
    /\ UNCHANGED <<current_proposal, deletion_manager, hpc>>
    /\ UNCHANGED deletionVars

\* The handler replies that the argument is no good and returns.
ReplyInvalid(cmd, arg, kind) ==
    /\ update' = [Update(cmd) EXCEPT !.arg = arg]
    /\ outbox' = <<Message(kind, 0, 0)>>
    /\ UNCHANGED <<current_proposal, deletion_manager, hpc>>
    /\ UNCHANGED deletionVars

\* The tail the three approving handlers share, up to the delete_emails
\* call: the confirmation, the test for the deletion manager (which returns
\* with the proposal kept), the call with the proposal's second as id.
Approve(cmd, arg, emails, confirmation) ==
    IF ~deletion_manager
    THEN /\ update' = [Update(cmd) EXCEPT !.arg = arg]
         /\ outbox' = <<confirmation, NotInitialized>>
         /\ UNCHANGED <<current_proposal, deletion_manager, hpc>>
         /\ UNCHANGED deletionVars
    ELSE /\ update' = [Update(cmd) EXCEPT !.arg = arg, !.calls = {"delete_emails"}]
         /\ outbox' = <<confirmation>>
         /\ hpc' = "awaiting"
         /\ delete_emails(emails, {Strftime(Proposal.timestamp)}, TRUE)
         /\ UNCHANGED <<current_proposal, deletion_manager>>

handle_yes_command ==
    /\ hpc = "idle"
    /\ dpc = "idle"
    /\ IF current_proposal = {}
       THEN ReplyNoActiveProposal("/yes")
       ELSE LET emails == Proposal.emails
            IN  Approve("/yes", <<>>, emails,
                        send_confirmation("approved", Len(emails), <<>>))
    /\ UNCHANGED <<pipelineVars, batchVars, callVars>>

handle_no_command ==
    /\ hpc = "idle"
    /\ dpc = "idle"
    /\ IF current_proposal = {}
       THEN ReplyNoActiveProposal("/no")
       ELSE /\ update' = Update("/no")
            /\ outbox' = <<send_confirmation("rejected", Len(Proposal.emails), <<>>)>>
            /\ current_proposal' = {}
            /\ UNCHANGED <<deletion_manager, hpc>>
            /\ UNCHANGED deletionVars
    /\ UNCHANGED <<pipelineVars, batchVars, callVars>>

handle_delete_only_command ==
    /\ hpc = "idle"
    /\ dpc = "idle"
    /\ \E arg \in ArgTexts :
         IF current_proposal = {}
         THEN ReplyNoActiveProposal("/delete_only")
         ELSE LET indices_to_delete == parse_number_range(arg)
                  emails_to_delete == Filter(Proposal.emails, indices_to_delete, TRUE)
                  emails_to_keep == Filter(Proposal.emails, indices_to_delete, FALSE)
              IN  IF indices_to_delete = <<>>
                  THEN ReplyInvalid("/delete_only", arg, "invalid_format")
                  ELSE IF emails_to_delete = <<>>
                  THEN ReplyInvalid("/delete_only", arg, "no_valid_indices")
                  ELSE Approve("/delete_only", arg, emails_to_delete,
                               Message("delete_only", Len(emails_to_delete),
                                       Len(emails_to_keep)))
    /\ UNCHANGED <<pipelineVars, batchVars, callVars>>

handle_except_command ==
    /\ hpc = "idle"
    /\ dpc = "idle"
    /\ \E arg \in ArgTexts :
         IF current_proposal = {}
         THEN ReplyNoActiveProposal("/except")
         ELSE LET excluded == parse_except_command(arg)
                  emails_to_delete == Filter(Proposal.emails, excluded, FALSE)
              IN  IF excluded = <<>>
                  THEN ReplyInvalid("/except", arg, "invalid_format")
                  ELSE IF emails_to_delete = <<>>
                  THEN ReplyInvalid("/except", arg, "excluded_everything")
                  ELSE Approve("/except", arg, emails_to_delete,
                               send_confirmation("partial", Len(emails_to_delete),
                                                 excluded))
    /\ UNCHANGED <<pipelineVars, batchVars, callVars>>

\* The emails are listed in messages of 20; the proposal stays.
handle_details_command ==
    /\ hpc = "idle"
    /\ dpc = "idle"
    /\ IF current_proposal = {}
       THEN ReplyNoActiveProposal("/details")
       ELSE /\ update' = Update("/details")
            /\ outbox' = IF Proposal.emails = <<>> THEN <<>>
                         ELSE <<Message("details", 1, Len(Proposal.emails))>>
            /\ UNCHANGED <<current_proposal, deletion_manager, hpc>>
            /\ UNCHANGED deletionVars
    /\ UNCHANGED <<pipelineVars, batchVars, callVars>>

\* The handlers returning with the proposal left live.
handler_resume_keeping ==
    /\ hpc = "awaiting"
    /\ dpc = "idle"
    /\ outbox' =
         IF ret.kind = "value"
         THEN LET results == CHOOSE r \in ret.value : TRUE
              IN  outbox \o <<Message("deletion_complete", results.success, results.failed)>>
                         \o (IF results.failed > 0
                             THEN <<Message("failed_to_delete", results.failed,
                                            Len(Prefix(results.errors, ErrorsShown)))>>
                             ELSE <<>>)
         ELSE outbox \o <<DeletionFailed>>
    /\ UNCHANGED current_proposal
    /\ hpc' = "idle"
    /\ UNCHANGED <<deletion_manager, update>>
    /\ UNCHANGED <<pipelineVars, deletionVars, batchVars, callVars>>

\* The approving handlers after delete_emails: the completion message from
\* the results and the list of failures, or, when reading the results or
\* delete_emails itself raised, the error message; then the proposal is
\* cleared.
handler_resume ==
    /\ hpc = "awaiting"
    /\ dpc = "idle"
    /\ outbox' =
         IF ret.kind = "value"
         THEN LET results == CHOOSE r \in ret.value : TRUE
              IN  outbox \o <<Message("deletion_complete", results.success, results.failed)>>
                         \o (IF results.failed > 0
                             THEN <<Message("failed_to_delete", results.failed,
                                            Len(Prefix(results.errors, ErrorsShown)))>>
                             ELSE <<>>)
         ELSE outbox \o <<DeletionFailed>>
    /\ current_proposal' = {}
    /\ hpc' = "idle"
    /\ UNCHANGED <<deletion_manager, update>>
    /\ UNCHANGED <<pipelineVars, deletionVars, batchVars, callVars>>

InitBot ==
    /\ current_proposal = {}
    /\ deletion_manager = FALSE
    /\ hpc = "idle"
    /\ update = NoUpdate
    /\ outbox = <<>>

NextBot ==
    \/ send_proposal
    \/ set_deletion_manager
    \/ handle_yes_command
    \/ handle_no_command
    \/ handle_delete_only_command
    \/ handle_except_command
    \/ handle_details_command
    \/ handler_resume
    \/ delete_emails_backup
    \/ delete_emails_loop
    \/ delete_emails_finish
    \/ Tick
-----------------------------------------------------------------------------
(* MultiAgentOrchestrator.batch_analyze: the emails are analysed one after   *)
(* the other through the workflow; nothing in the loop catches an exception. *)

MaxBatch == 2          \* emails in one batch

\* The emails of a batch: one sender, so that what distinguishes the emails
\* of a batch is what the agents and the language model make of them.
BatchEmails == { [address |-> <<"a", "b">>] }

RECURSIVE SeqsUpTo(_, _)
SeqsUpTo(S, n) ==
    IF n = 0 THEN {<<>>}
    ELSE LET shorter == SeqsUpTo(S, n - 1)
         IN  shorter \cup { Append(s, x) : s \in {t \in shorter : Len(t) = n - 1}, x \in S }

BatchInputs == SeqsUpTo(BatchEmails, MaxBatch) \ {<<>>}

\* status: idle, running, returned (results handed back), raised (an
\* exception left batch_analyze); placed: the bucket of each email stored so
\* far, in input order; failed: the positions whose analysis raised.
NoBatch == [emails |-> <<>>, i |-> 0, placed |-> <<>>, failed |-> {}, status |-> "idle"]

\* analyze_email: the initial state of the workflow for the email.
initial_state(mail) ==
    /\ email' = mail
    /\ node' = "document_agent"
    /\ document_analysis' = NoDocument
    /\ classification' = NoClassification
    /\ spam_analysis' = SpamState(NoSpam)
    /\ unwanted_analysis' = UnwantedState(NoUnwanted)
    /\ final_decision' = ""
    /\ confidence' = ""
    /\ calls' = {}

\* batch_analyze(emails): the loop starts with the first email.
batch_analyze ==
    /\ batch.status # "running"
    /\ \E emails \in BatchInputs :
         /\ batch' = [NoBatch EXCEPT !.emails = emails, !.i = 1, !.status = "running"]
         /\ initial_state(emails[1])
    /\ UNCHANGED <<deletionVars, botVars, callVars>>

\* analysis = self.analyze_email(email) came back: the email goes into the
\* bucket of its decision and the loop goes on, or returns after the last.
batch_store ==
    /\ batch.status = "running"
    /\ node = "END"
    /\ LET stored == [batch EXCEPT !.placed = Append(@, final_decision)]
       IN  IF batch.i < Len(batch.emails)
           THEN /\ batch' = [stored EXCEPT !.i = @ + 1]
                /\ initial_state(batch.emails[batch.i + 1])
           ELSE /\ batch' = [stored EXCEPT !.status = "returned"]
                /\ UNCHANGED pipelineVars
    /\ UNCHANGED <<deletionVars, botVars, callVars>>

\* self.analyze_email(email) raised: the exception leaves the loop and
\* batch_analyze, and the buckets filled so far are not returned.
batch_raise ==
    /\ batch.status = "running"
    /\ node = "raised"
    /\ batch' = [batch EXCEPT !.failed = @ \cup {batch.i}, !.status = "raised"]
    /\ UNCHANGED pipelineVars
    /\ UNCHANGED <<deletionVars, botVars, callVars>>

InitBatch == batch = NoBatch

NextBatch ==
    \/ batch_analyze
    \/ batch_store
    \/ batch_raise
    \/ _document_node
    \/ _classifier_node
    \/ _spam_node
    \/ _unwanted_node
    \/ decision_maker

-----------------------------------------------------------------------------
(* Single calls: an agent, a parser of the bot or the decision node called  *)
(* on its own, on every input of a bounded set.                              *)

MaxItems == 2          \* items of an index argument

\* What a call was given and what it gave back; before: an earlier call of
\* the decision node, kept to compare the two.
Invocation(fn, given, result) ==
    [fn |-> fn, given |-> given, result |-> result, before |-> {}]

NoInvocation == Invocation("none", <<>>, <<>>)

doc_agent_analyze_email ==
    /\ invocation = NoInvocation
    /\ \E mail \in Emails, view \in DocViews, llm \in LLMResponses(BOOLEAN, FALSE) :
         invocation' = Invocation("analyze_email",
                                  [mail |-> mail, view |-> view, llm |-> llm],
                                  analyze_email(mail, view, llm))
    /\ UNCHANGED <<pipelineVars, deletionVars, botVars, batchVars>>

classifier_classify_email ==
    /\ invocation = NoInvocation
    /\ \E view \in ClassifierViews, llm \in LLMResponses(Categories, "none") :
         invocation' = Invocation("classify_email", [view |-> view, llm |-> llm],
                                  classify_email(view, llm))
    /\ UNCHANGED <<pipelineVars, deletionVars, botVars, batchVars>>

spam_detector_detect_spam ==
    /\ invocation = NoInvocation
    /\ \E indicators \in SpamIndicators, llm \in LLMResponses(BOOLEAN, FALSE) :
         invocation' = Invocation("detect_spam", [indicators |-> indicators, llm |-> llm],
                                  detect_spam(indicators, llm))
    /\ UNCHANGED <<pipelineVars, deletionVars, botVars, batchVars>>

unwanted_agent_analyze_unwanted ==
    /\ invocation = NoInvocation
    /\ \E indicators \in UnwantedIndicators, llm \in LLMResponses(BOOLEAN, FALSE) :
         invocation' = Invocation("analyze_unwanted",
                                  [indicators |-> indicators, llm |-> llm],
                                  analyze_unwanted(indicators, llm))
    /\ UNCHANGED <<pipelineVars, deletionVars, botVars, batchVars>>

\* calculate_email_age_days(received_date), today being datetime.now() in
\* days: the days between the two, or 0 when the date does not parse.
calculate_email_age_days(received_date, today) ==
    IF received_date = {} THEN 0
    ELSE today - (CHOOSE d \in received_date : TRUE)

\* The emails the unwanted agent is called on twice: what its patterns find,
\* isRead, and receivedDateTime, a day or {} for a text that is no date.
DatedEmails ==
    [newsletter : BOOLEAN, social : BOOLEAN, marketing : BOOLEAN, event : BOOLEAN,
     isRead : BOOLEAN, receivedDateTime : {{}, {0}}]

\* analyze_unwanted, lines 186-196: the indicators of the email today.
collect_indicators(mail, today) ==
    [newsletter |-> mail.newsletter, social |-> mail.social,
     marketing |-> mail.marketing, event |-> mail.event,
     age_days |-> calculate_email_age_days(mail.receivedDateTime, today),
     is_unread |-> ~mail.isRead]

\* analyze_unwanted(email) called on its own on a day of AgeSamples, and a
\* second time on the same email that day or later, the language model
\* answering as before.
unwanted_agent_analyze_dated ==
    /\ invocation.fn \in {"none", "analyze_unwanted(email)"}
    /\ invocation.before = {}
    /\ \E mail \in DatedEmails, today \in AgeSamples,
          llm \in LLMResponses(BOOLEAN, FALSE) :
         /\ invocation.fn # "none" =>
               /\ mail = invocation.given.mail
               /\ llm = invocation.given.llm
               /\ today >= invocation.given.today
         /\ invocation' =
               [fn |-> "analyze_unwanted(email)",
                given |-> [mail |-> mail, today |-> today, llm |-> llm],
                result |-> analyze_unwanted(collect_indicators(mail, today), llm),
                before |-> IF invocation.fn = "none" THEN {}
                           ELSE {[given |-> invocation.given,
                                  result |-> invocation.result]}]
    /\ UNCHANGED <<pipelineVars, deletionVars, botVars, batchVars>>

\* The index arguments a user types: up to MaxItems items divided by commas,
\* an item being a single index [lo = hi] or a range lo-hi.
Indices == {1, 3, 5, 12}

IndexItems ==
    { [range |-> FALSE, lo |-> n, hi |-> n] : n \in Indices }
    \cup { [range |-> TRUE, lo |-> a, hi |-> b] : a \in Indices, b \in Indices }

\* str(n) of a natural number
RECURSIVE Str(_)
Str(n) == IF n < 10 THEN <<Digits[n + 1]>> ELSE Str(n \div 10) \o <<Digits[(n % 10) + 1]>>

ItemText(item) ==
    IF item.range THEN Str(item.lo) \o <<"-">> \o Str(item.hi) ELSE Str(item.lo)

\* The items written one after the other with commas between them.
RECURSIVE ArgText(_)
ArgText(items) ==
    IF items = <<>> THEN <<>>
    ELSE IF Len(items) = 1 THEN ItemText(items[1])
    ELSE ItemText(items[1]) \o <<",">> \o ArgText(Tail(items))

IndexArguments == SeqsUpTo(IndexItems, MaxItems)

bot_parse_number_range ==
    /\ invocation = NoInvocation
    /\ \E items \in IndexArguments :
         invocation' = Invocation("parse_number_range",
                                  [items |-> items, text |-> ArgText(items)],
                                  parse_number_range(ArgText(items)))
    /\ UNCHANGED <<pipelineVars, deletionVars, botVars, batchVars>>

bot_parse_except_command ==
    /\ invocation = NoInvocation
    /\ \E items \in IndexArguments :
         invocation' = Invocation("parse_except_command",
                                  [items |-> items, text |-> ArgText(items)],
                                  parse_except_command(ArgText(items)))
    /\ UNCHANGED <<pipelineVars, deletionVars, botVars, batchVars>>

\* The verdict tuples the decision node is called on.
DecisionInputs ==
    [document_analysis :
        { DocVerdict(p, c, "keyword_match") : p \in BOOLEAN, c \in {"high", "low"} },
     classification :
        { ClassVerdict(cat, c, "ai_classification") :
            cat \in {"urgent", "newsletter", "spam"}, c \in {"high", "low"} },
     spam_analysis :
        { SpamState(SpamVerdict(s, c, 0, "pattern_detection")) :
            s \in BOOLEAN, c \in {"high", "low"} },
     unwanted_analysis :
        { UnwantedState(UnwantedVerdict(u, c, 0, "pattern_detection")) :
            u \in BOOLEAN, c \in {"high", "low"} }]

\* The state _decision_node returns: {**state, final_decision, confidence}.
ReturnedState(state, r) ==
    [raised |-> r.raised,
     state |-> [document_analysis |-> state.document_analysis,
                classification |-> state.classification,
                spam_analysis |-> state.spam_analysis,
                unwanted_analysis |-> state.unwanted_analysis,
                final_decision |-> r.final_decision,
                confidence |-> r.confidence]]

\* The call that went before, when it was one of the decision node.
Before ==
    IF invocation.fn = "_decision_node"
    THEN {[given |-> invocation.given, result |-> invocation.result]}
    ELSE {}

\* A decision node that answers review once it has been called before.
orchestrator_decision_node_worn ==
    /\ invocation.fn \in {"none", "_decision_node"}
    /\ invocation.before = {}
    /\ \E state \in DecisionInputs :
         LET r == IF invocation.fn = "_decision_node"
                  THEN Decision("review", "medium")
                  ELSE _decision_node(state.document_analysis, state.classification,
                                      state.spam_analysis, state.unwanted_analysis)
         IN  invocation' = [fn |-> "_decision_node", given |-> state,
                            result |-> ReturnedState(state, r), before |-> Before]
    /\ UNCHANGED <<pipelineVars, deletionVars, botVars, batchVars>>

\* _decision_node(state) called on its own, a first and a second time.
orchestrator_decision_node ==
    /\ invocation.fn \in {"none", "_decision_node"}
    /\ invocation.before = {}
    /\ \E state \in DecisionInputs :
         LET r == _decision_node(state.document_analysis, state.classification,
                                 state.spam_analysis, state.unwanted_analysis)
         IN  invocation' = [fn |-> "_decision_node", given |-> state,
                            result |-> ReturnedState(state, r), before |-> Before]
    /\ UNCHANGED <<pipelineVars, deletionVars, botVars, batchVars>>

InitCalls == invocation = NoInvocation

NextCalls ==
    \/ doc_agent_analyze_email
    \/ classifier_classify_email
    \/ spam_detector_detect_spam
    \/ unwanted_agent_analyze_unwanted
    \/ unwanted_agent_analyze_dated
    \/ bot_parse_number_range
    \/ bot_parse_except_command
    \/ orchestrator_decision_node

-----------------------------------------------------------------------------
(* telegram_bot/bot_runner.py: /analyze fetches the 'other' inbox, runs      *)
(* batch_analyze over it and sends the delete bucket as a proposal; the      *)
(* approval commands then work on that proposal. The deletion manager is     *)
(* attached in main before the first update is handled, and behaviours with  *)
(* one /analyze are explored.                                                *)

\* The 'other' inbox: two emails of a sender outside the VIP list.
Inbox == << [id |-> 1, address |-> <<"b">>], [id |-> 2, address |-> <<"b">>] >>

\* outlook.get_emails(limit=100, inbox_type='other'): None without a token,
\* else the first emails of the inbox, as many as there are at the moment.
get_emails ==
    IF ~token THEN {<<>>}
    ELSE { SubSeq(Inbox, 1, n) : n \in 0..Len(Inbox) }

RECURSIVE bucket(_, _, _)
\* results[name]: the emails of the batch placed in the bucket, in input order.
bucket(emails, placed, name) ==
    IF placed = <<>> THEN <<>>
    ELSE (IF Head(placed) = name THEN <<Head(emails)>> ELSE <<>>)
         \o bucket(Tail(emails), Tail(placed), name)

\* A proposal made of the review bucket as well.
delete_candidates_with_review(emails, placed) ==
    bucket(emails, [k \in 1..Len(placed) |->
                       IF placed[k] = "review" THEN "delete" ELSE placed[k]], "delete")

\* delete_emails = [item['email'] for item in results['delete']]
delete_candidates(emails, placed) == bucket(emails, placed, "delete")

\* The workflow state is local to analyze_email: nothing of it is left when
\* the handler has returned.
workflow_dropped ==
    /\ node' = "idle"
    /\ email' = NoEmail
    /\ document_analysis' = NoDocument
    /\ classification' = NoClassification
    /\ spam_analysis' = SpamState(NoSpam)
    /\ unwanted_analysis' = UnwantedState(NoUnwanted)
    /\ final_decision' = ""
    /\ confidence' = ""
    /\ calls' = {}

\* analyze_command up to the call of batch_analyze.
analyze_command ==
    /\ hpc = "idle"
    /\ dpc = "idle"
    /\ deletion_manager
    /\ batch.status = "idle"
    /\ \E emails \in get_emails :
         IF emails = <<>>
         THEN /\ update' = Update("/analyze")
              /\ outbox' = <<Message("starting", 0, 0), Message("no_emails_fetched", 0, 0)>>
              /\ UNCHANGED <<hpc, batch, pipelineVars>>
         ELSE /\ update' = [Update("/analyze") EXCEPT !.calls = {"batch_analyze"}]
              /\ outbox' = <<Message("starting", 0, 0), Message("fetched", Len(emails), 0)>>
              /\ hpc' = "analyzing"
              /\ batch' = [NoBatch EXCEPT !.emails = emails, !.i = 1, !.status = "running"]
              /\ initial_state(emails[1])
    /\ UNCHANGED <<current_proposal, deletion_manager>>
    /\ UNCHANGED <<deletionVars, callVars>>

\* analyze_command after batch_analyze: an exception is reported; an empty
\* delete bucket is reported; otherwise the delete bucket is sent as the
\* proposal. The workflow states of the batch are dropped with the handler.
analyze_command_resume ==
    /\ hpc = "analyzing"
    /\ batch.status \in {"returned", "raised"}
    /\ LET candidates == delete_candidates(batch.emails, batch.placed)
       IN  IF batch.status = "raised"
           THEN /\ outbox' = outbox \o <<Message("error", 0, 0)>>
                /\ UNCHANGED current_proposal
           ELSE IF candidates = <<>>
           THEN /\ outbox' = outbox \o <<Message("nothing_safe_to_delete", 0, 0)>>
                /\ UNCHANGED current_proposal
           ELSE \E delivered \in BOOLEAN :
                  /\ current_proposal' = {[emails |-> candidates, timestamp |-> clock]}
                  /\ outbox' = (IF delivered
                                THEN <<Message("proposal", Len(candidates), 0)>>
                                ELSE <<>>)
                               \o <<Message("proposal_sent", 0, 0)>>
    /\ batch' = [batch EXCEPT !.status = "done"]
    /\ hpc' = "idle"
    /\ workflow_dropped
    /\ UNCHANGED <<deletion_manager, update>>
    /\ UNCHANGED <<deletionVars, callVars>>

NextEndToEnd ==
    \/ set_deletion_manager
    \/ analyze_command
    \/ _document_node
    \/ _classifier_node
    \/ _spam_node
    \/ _unwanted_node
    \/ decision_maker
    \/ batch_store
    \/ batch_raise
    \/ analyze_command_resume
    \/ handle_yes_command
    \/ handle_no_command
    \/ handle_delete_only_command
    \/ handle_except_command
    \/ handle_details_command
    \/ handler_resume
    \/ delete_emails_backup
    \/ delete_emails_loop
    \/ delete_emails_finish


Init == InitAnalysis /\ InitDeletion /\ InitBot /\ InitBatch /\ InitCalls

SpecAnalysis == Init /\ [][NextAnalysis]_vars

SpecDelete == Init /\ [][NextDelete]_vars

\* delete_emails is a sequential loop in a running process: a turn that can
\* be taken is taken, and so is the code after the loop.
SpecDeleteRunning ==
    /\ SpecDelete
    /\ WF_vars(delete_emails_loop)
    /\ WF_vars(delete_emails_finish)

SpecBot == Init /\ [][NextBot]_vars

SpecBatch == Init /\ [][NextBatch]_vars

SpecCalls == Init /\ [][NextCalls]_vars

SpecEndToEnd == Init /\ [][NextEndToEnd]_vars

-----------------------------------------------------------------------------
(* Properties of the analysis pipeline.                                     *)

\* Two addresses are the same up to case and surrounding blanks.
SameAddress(a, b) ==
    LET x == Strip(a)
        y == Strip(b)
    IN  /\ Len(x) = Len(y)
        /\ \A i \in 1..Len(x) : LowerChar(x[i]) = LowerChar(y[i])

\* The address is an entry of the configured allow-list.
InAllowList(a) ==
    \E i \in 1..Len(Split(VIP_EMAILS_RAW)) :
        /\ Strip(Split(VIP_EMAILS_RAW)[i]) # <<>>
        /\ SameAddress(a, Split(VIP_EMAILS_RAW)[i])

\* C1: for an email whose sender is in the VIP allow-list (up to case and
\* surrounding blanks) the document agent answers preserve / high by the VIP
\* rule, having consulted neither the keywords nor the language model, and a
\* final decision of the pipeline for that email is preserve, whatever the
\* classifier, spam and unwanted verdicts are.
C1_VipAlwaysPreserved ==
    InAllowList(email.address) =>
        /\ node \notin {"idle", "document_agent"} =>
              /\ document_analysis = DocVerdict(TRUE, "high", "vip_contact")
              /\ "doc.keywords" \notin calls
              /\ "doc.llm" \notin calls
        /\ node = "END" => final_decision = "preserve"

\* A VIP sender written in another case and with blanks, judged spam and
\* unwanted / high with a deletable category, has reached its final decision.
C1_Witness ==
    /\ node = "END"
    /\ email.address = <<" ", "a", "B", " ">>
    /\ spam_analysis.is_spam
    /\ unwanted_analysis.is_unwanted
    /\ unwanted_analysis.confidence = "high"
    /\ classification.category = "newsletter"
    /\ final_decision = "preserve"

\* C2 as stated: whenever the spam agent says is_spam, the final decision is
\* review.
C2_SpamAlwaysReview ==
    (node = "END" /\ spam_analysis.is_spam) => final_decision = "review"

\* C2 as amended: whenever the spam agent says is_spam, the final decision is
\* never delete; it is review with the spam agent's confidence unless the
\* document agent says preserve, and then it is preserve.
C2_SpamNeverDeleted ==
    (node = "END" /\ spam_analysis.is_spam) =>
        /\ final_decision # "delete"
        /\ document_analysis.should_preserve => final_decision = "preserve"
        /\ ~document_analysis.should_preserve =>
              /\ final_decision = "review"
              /\ confidence = spam_analysis.confidence

\* Spam that is also unwanted / high with a deletable category went to review.
C2_Witness ==
    /\ node = "END"
    /\ spam_analysis.is_spam
    /\ ~document_analysis.should_preserve
    /\ unwanted_analysis.is_unwanted
    /\ unwanted_analysis.confidence = "high"
    /\ classification.category = "promotional"
    /\ final_decision = "review"

\* The six-rule table of the decision step, first match winning.
RuleTable(doc, cls, spam, unw) ==
    LET rule1 == doc.should_preserve
        rule2 == spam.is_spam
        rule3 == cls.category \in {"urgent", "personal"}
        rule4 == unw.is_unwanted /\ ~doc.should_preserve
        rule5 == "low" \in {doc.confidence, cls.confidence, spam.confidence, unw.confidence}
    IN  CASE rule1 -> <<"preserve", doc.confidence>>
          [] ~rule1 /\ rule2 -> <<"review", spam.confidence>>
          [] ~rule1 /\ ~rule2 /\ rule3 -> <<"preserve", cls.confidence>>
          [] ~rule1 /\ ~rule2 /\ ~rule3 /\ rule4 ->
                IF unw.confidence = "high"
                   /\ cls.category \in {"newsletter", "promotional", "informational"}
                THEN <<"delete", "high">>
                ELSE <<"review", "medium">>
          [] ~rule1 /\ ~rule2 /\ ~rule3 /\ ~rule4 /\ rule5 -> <<"review", "low">>
          [] OTHER -> <<"preserve", "medium">>

\* C3: the decision node returns the decision and the confidence of the
\* six-rule table; in particular unwanted / high with a deletable category and
\* a low-confidence classifier verdict gives delete / high.
C3_DecisionFollowsTable ==
    node = "END" =>
        /\ <<final_decision, confidence>> =
              RuleTable(document_analysis, classification, spam_analysis, unwanted_analysis)
        /\ ( /\ ~document_analysis.should_preserve
             /\ ~spam_analysis.is_spam
             /\ unwanted_analysis.is_unwanted
             /\ unwanted_analysis.confidence = "high"
             /\ classification.category \in {"newsletter", "promotional", "informational"}
             /\ classification.confidence = "low" )
           => <<final_decision, confidence>> = <<"delete", "high">>

\* Rules 4 and 5 both match, and the decision is delete / high.
C3_Witness ==
    /\ node = "END"
    /\ ~document_analysis.should_preserve
    /\ ~spam_analysis.is_spam
    /\ unwanted_analysis.is_unwanted
    /\ unwanted_analysis.confidence = "high"
    /\ classification.category = "informational"
    /\ classification.confidence = "low"
    /\ final_decision = "delete"
    /\ confidence = "high"
-----------------------------------------------------------------------------
(* Properties of the deletion.                                              *)

\* The ids a backup file holds.
BackedUpIds(proposal_id) ==
    IF proposal_id \in DOMAIN backups /\ backups[proposal_id].complete
    THEN { backups[proposal_id].emails[k].id : k \in 1..Len(backups[proposal_id].emails) }
    ELSE {}

IssuedIds == { delete_calls[k] : k \in 1..Len(delete_calls) }

\* C4: with create_backup true, once a delete request has been issued the
\* backup of this batch is on disk, complete, and holds every email of the
\* batch, so that every email a delete request went out for is in it, also
\* when the process died inside the loop; and when writing the backup
\* raised, no delete request was issued at all.
C4_BackupBeforeDelete ==
    /\ (dpc \in {"loop", "killed"} /\ frame.create_backup /\ delete_calls # <<>>) =>
          /\ frame.proposal_id \in DOMAIN backups
          /\ backups[frame.proposal_id] = backup_data(frame.emails, frame.proposal_id)
          /\ IssuedIds \subseteq BackedUpIds(frame.proposal_id)
    /\ (dpc = "idle" /\ delete_calls # <<>>) =>
          \A r \in last_deletion :
              r.backup_file # {} => IssuedIds \subseteq BackedUpIds(r.proposal_id)
    /\ ret = Raised => delete_calls = <<>>
    /\ (dpc = "killed" /\ frame.results = {}) => delete_calls = <<>>

\* The process died after the first delete request of a two-email batch whose
\* backup replaced the one an earlier batch had written under the same id.
C4_Witness ==
    /\ dpc = "killed"
    /\ runs = 2
    /\ frame.create_backup
    /\ Len(frame.emails) = 2
    /\ Len(delete_calls) = 1
    /\ last_deletion # {}
    /\ \A r \in last_deletion :
          r.proposal_id = frame.proposal_id /\ r.backup_file # {} /\ r.total = 1

\* The positions of the batch, in input order, whose delete succeeded / failed.
Positions(outcomes, wanted) ==
    SelectSeq([k \in 1..Len(outcomes) |-> k], LAMBDA k : outcomes[k] = wanted)

\* The first n characters of s.
FirstChars(s, n) == [k \in 1..(IF Len(s) < n THEN Len(s) ELSE n) |-> s[k]]

\* What C5 requires of the recorded result, shown(s) being the subject an
\* error entry is to carry for an email of subject s ('No Subject' standing
\* for the subject of an email that has none).
RecordedAsRequired(r, emails, outcomes, shown(_)) ==
    LET ok == Positions(outcomes, TRUE)
        bad == Positions(outcomes, FALSE)
    IN  /\ r.total = Len(emails)
        /\ r.success = Len(emails) - Len(bad)
        /\ r.failed = Len(bad)
        /\ r.deleted_ids = [k \in 1..Len(ok) |-> emails[ok[k]].id]
        /\ Len(r.errors) = Len(bad)
        /\ \A k \in 1..Len(bad) :
              /\ r.errors[k].email_id = emails[bad[k]].id
              /\ r.errors[k].subject =
                    shown(Get(emails[bad[k]], "subject", NoSubject))

WholeSubject(s) == s

CutSubject(s) == FirstChars(s, SubjectCut)

\* C5 as stated: when delete_emails has gone through a batch of N emails of
\* which the set F failed, the result it records has total N, success
\* N - |F|, failed |F|, deleted_ids the ids that succeeded in input order, and
\* one errors entry per failed email with that email's id and subject.
C5_ErrorsCarrySubject ==
    [][ (dpc = "loop" /\ dpc' = "idle") =>
            \A r \in last_deletion' :
                RecordedAsRequired(r, frame.emails, frame.outcomes, WholeSubject) ]_vars

\* C5 as amended: the same, the errors entry carrying the email's id and the
\* first 50 characters of its subject.
C5_PartialFailureCounts ==
    [][ (dpc = "loop" /\ dpc' = "idle") =>
            /\ last_deletion' # {}
            /\ Len(frame.outcomes) = Len(frame.emails)
            /\ \A r \in last_deletion' :
                  RecordedAsRequired(r, frame.emails, frame.outcomes, CutSubject) ]_vars

\* A batch of two whose first email, the one with the long subject, was not
\* deleted and whose second was.
C5_Witness ==
    /\ dpc = "idle"
    /\ \E r \in last_deletion :
          /\ r.total = 2
          /\ r.success = 1
          /\ r.failed = 1
          /\ r.deleted_ids = <<1>>
          /\ Len(r.errors) = 1
          /\ r.errors[1].email_id = 2
          /\ Len(r.errors[1].subject) = SubjectCut

\* C6: a delete_emails call on a non-empty list that comes to its end returns
\* the result it recorded, whether or not the inbox counts were obtained.
C6_ReturnsDeletionResult ==
    (dpc = "idle" /\ ret.kind \in {"value", "None"} /\ ret # Returned(EmptyResult)) =>
        /\ ret.kind = "value"
        /\ ret.value = last_deletion

\* C7: a backup file, once completely written, is neither replaced nor
\* changed by anything that happens later.
C7_BackupsAppendOnly ==
    [][ \A p \in DOMAIN backups :
            backups[p].complete =>
                /\ p \in DOMAIN backups'
                /\ backups'[p] = backups[p] ]_vars

\* C8: a delete_emails call that returns the empty result does so in one
\* step that refreshes no token, requests no count, writes no backup, issues
\* no delete request and leaves last_deletion alone.
C8_EmptyListDoesNothing ==
    [][ (ret' # ret /\ ret' = Returned(EmptyResult)) =>
            /\ dpc = "idle"
            /\ UNCHANGED <<token, backups, last_deletion, dpc, frame, delete_calls, runs>> ]_vars

\* The empty list was handed over after a batch had been deleted without a
\* token refresh having succeeded.
C8_Witness ==
    /\ ret = Returned(EmptyResult)
    /\ last_deletion # {}
    /\ backups # <<>>
    /\ ~token
-----------------------------------------------------------------------------
(* Properties of the bot.                                                   *)

ApprovalCommands == {"/yes", "/no", "/except", "/delete_only"}

BotCommands == ApprovalCommands \cup {"/details"}

\* The replies to an argument that selects nothing.
InputErrors == {"invalid_format", "no_valid_indices", "excluded_everything"}

\* C9: once the handler of /yes, /no, /except or /delete_only has returned
\* from a command that arrived while a proposal was live (and whose argument
\* was not turned down as a user-input error), current_proposal is None,
\* also when the deletion manager is not initialised and when delete_emails
\* raised.
C9_ApprovalConsumesProposal ==
    (/\ hpc = "idle"
     /\ update.cmd \in ApprovalCommands
     /\ update.live
     /\ outbox # <<>>
     /\ outbox[1].kind \notin InputErrors) =>
        current_proposal = {}

\* C10: a /yes, /no, /except, /delete_only or /details that arrives while no
\* proposal is live is answered with the one message that no proposal is
\* active; the handler returns normally, calls neither delete_emails nor
\* create_backup, so that nothing of the deletion manager, the backups or the
\* mailbox changes, and current_proposal stays empty.
C10_NoProposalNoAction ==
    [][ (/\ current_proposal = {}
         /\ hpc = "idle"
         /\ update'.cmd \in BotCommands
         /\ (update' # update \/ outbox' # outbox)) =>
            /\ outbox' = <<NoActiveProposal>>
            /\ update'.calls = {}
            /\ update'.returned
            /\ ~update'.live
            /\ hpc' = "idle"
            /\ current_proposal' = {}
            /\ UNCHANGED deletionVars ]_vars

\* /details arrived after the last proposal had been consumed by a deletion.
C10_Witness ==
    /\ update.cmd = "/details"
    /\ ~update.live
    /\ outbox = <<NoActiveProposal>>
    /\ current_proposal = {}
    /\ last_deletion # {}
    /\ deletion_manager

\* C11: a send_proposal whose message is not delivered (it returns False)
\* makes no new proposal live: the live proposal is afterwards the one that
\* was live before, or none.
C11_UndeliveredProposalNotLive ==
    [][ (update'.cmd = "send_proposal" /\ ~update'.returned) =>
            current_proposal' \in {current_proposal, {}} ]_vars

\* One comma-separated token of an index argument is a number or a range a-b.
WellFormedToken(t) ==
    \/ IsInt(t)
    \/ /\ Len(SplitOn(Strip(t), "-")) = 2
       /\ IsInt(SplitOn(Strip(t), "-")[1])
       /\ IsInt(SplitOn(Strip(t), "-")[2])

\* The argument is empty or holds a token that is neither.
Malformed(arg) ==
    \/ arg = <<>>
    \/ \E k \in 1..Len(SplitOn(arg, ",")) : ~WellFormedToken(SplitOn(arg, ",")[k])

\* C15: a /delete_only or /except that arrives with a malformed argument
\* while a proposal is live is answered with one error message and changes
\* nothing: no backup, no delete request, nothing of the deletion manager,
\* and the live proposal stays as it was.
C15_MalformedArgumentChangesNothing ==
    [][ (/\ hpc = "idle"
         /\ update'.cmd \in {"/delete_only", "/except"}
         /\ update'.live
         /\ Malformed(update'.arg)
         /\ (update' # update \/ outbox' # outbox)) =>
            /\ Len(outbox') = 1
            /\ outbox'[1].kind \in InputErrors
            /\ hpc' = "idle"
            /\ current_proposal' = current_proposal
            /\ UNCHANGED deletionVars ]_vars
-----------------------------------------------------------------------------
(* Properties of the single calls and of the batch.                         *)

\* The verdict each agent is to fall back on when its language-model step
\* fails, for the input the call was given.
FailSafeDefault(fn, given) ==
    CASE fn = "analyze_email" -> DocVerdict(TRUE, "low", "error_default")
      [] fn = "classify_email" -> ClassVerdict("informational", "low", "error_default")
      [] fn = "detect_spam" ->
            LET spam_score == calculate_spam_score(given.indicators).score
            IN  SpamVerdict(spam_score >= 50, "low", spam_score, "error_default")
      [] fn = "analyze_unwanted" ->
            LET unwanted_score == calculate_unwanted_score(given.indicators).score
            IN  UnwantedVerdict(unwanted_score >= 55, "low", unwanted_score, "error_default")

AgentCalls == {"analyze_email", "classify_email", "detect_spam", "analyze_unwanted"}

\* The agent called went as far as asking the language model.
AskedLLM ==
    /\ invocation.fn \in AgentCalls
    /\ \E c \in {"doc.llm", "classifier.llm", "spam.llm", "unwanted.llm"} :
          c \in invocation.result.calls

\* C12: when the language-model call of an agent, or the parsing of its
\* answer, raises, the agent returns its fail-safe default: preserve for the
\* document agent, informational for the classifier, is_spam = (score >= 50)
\* for the spam agent, is_unwanted = (score >= 55) for the unwanted agent,
\* each with confidence low and method error_default, and no exception
\* leaves the agent.
C12_LlmFailureGivesDefault ==
    (AskedLLM /\ invocation.given.llm.error) =>
        /\ invocation.result.verdict = FailSafeDefault(invocation.fn, invocation.given)
        /\ invocation.fn = "analyze_email" => ~invocation.result.raised

\* The language model failed on an email of spam score 50: the spam agent
\* answers is_spam by default.
C12_Witness ==
    /\ invocation.fn = "detect_spam"
    /\ invocation.given.llm.error
    /\ invocation.result.calls = {"spam.llm"}
    /\ invocation.result.verdict.method = "error_default"
    /\ invocation.result.verdict.confidence = "low"
    /\ invocation.result.verdict.spam_score = 50
    /\ invocation.result.verdict.is_spam

\* C13: when the language model answers with a JSON document that lacks the
\* verdict field or the confidence field, the agent returns its fail-safe
\* default and raises nothing.
C13_SchemaViolationGivesDefault ==
    (/\ AskedLLM
     /\ ~invocation.given.llm.error
     /\ ~({"primary", "confidence"} \subseteq invocation.given.llm.keys)) =>
        /\ invocation.result.verdict = FailSafeDefault(invocation.fn, invocation.given)
        /\ invocation.fn = "analyze_email" => ~invocation.result.raised

\* C14: a batch_analyze run comes to its end by returning the buckets, with
\* every email whose own analysis did not raise placed in a bucket, also
\* when the analysis of one email raised.
C14_BatchSurvivesFailure ==
    batch.status \in {"returned", "raised"} =>
        /\ batch.status = "returned"
        /\ Len(batch.placed) + Cardinality(batch.failed) = Len(batch.emails)

\* The indices an argument lists: every single and every integer of a range.
ListedIndices(items) ==
    UNION { items[k].lo..items[k].hi : k \in 1..Len(items) }

Elements(list) == { list[k] : k \in 1..Len(list) }

\* C16: parse_number_range, given singles and inclusive ranges divided by
\* commas, returns the listed indices and the integers of every range, each
\* once and in ascending order, whatever the order of the items.
C16_RangeParserReturnsListedIndices ==
    invocation.fn = "parse_number_range" =>
        /\ Elements(invocation.result) = ListedIndices(invocation.given.items)
        /\ \A k \in 1..(Len(invocation.result) - 1) :
              invocation.result[k] < invocation.result[k + 1]

\* '5,1-3' gave [1, 2, 3, 5].
C16_Witness ==
    /\ invocation.fn = "parse_number_range"
    /\ invocation.given.text = <<"5", ",", "1", "-", "3">>
    /\ invocation.result = <<1, 2, 3, 5>>

\* C17: the parser of /except, given singles and inclusive ranges divided by
\* commas, returns the listed indices and the integers of every range, so
\* that '/except 1-3,5' keeps emails 1, 2, 3 and 5.
C17_ExceptParserAcceptsRanges ==
    invocation.fn = "parse_except_command" =>
        Elements(invocation.result) = ListedIndices(invocation.given.items)

\* The points the age of an email is to add: strict thresholds.
AgePoints(age_days) ==
    IF age_days > 730 THEN 40
    ELSE IF age_days > 365 THEN 25
    ELSE IF age_days > 180 THEN 15
    ELSE 0

\* Unread, the newsletter pattern and no other, and of the given age.
UnreadNewsletter(age_days) ==
    [newsletter |-> TRUE, social |-> FALSE, marketing |-> FALSE, event |-> FALSE,
     age_days |-> age_days, is_unread |-> TRUE]

\* C18: the age of an email adds 40 points above 730 days, 25 above 365, 15
\* above 180 and none otherwise; an unread email more than 730 days old that
\* matches only the newsletter pattern scores 80 and is unwanted with
\* confidence high without the language model being asked; and with a
\* classifier verdict newsletter, a document verdict not to preserve and a
\* spam verdict not spam, the decision on that verdict is delete / high.
C18_OldUnreadNewsletterDeleted ==
    invocation.fn = "analyze_unwanted" =>
        LET indicators == invocation.given.indicators
            verdict == invocation.result.verdict
            young == calculate_unwanted_score([indicators EXCEPT !.age_days = 0]).score
        IN  /\ verdict.unwanted_score - young = AgePoints(indicators.age_days)
            /\ (indicators.age_days > 730
                /\ indicators = UnreadNewsletter(indicators.age_days)) =>
                  /\ verdict = UnwantedVerdict(TRUE, "high", 80, "pattern_detection")
                  /\ invocation.result.calls = {}
                  /\ \A dc \in Confidences, cc \in Confidences, sc \in Confidences :
                        _decision_node(DocVerdict(FALSE, dc, "ai_classification"),
                                       ClassVerdict("newsletter", cc, "pattern_match"),
                                       SpamState(SpamVerdict(FALSE, sc, 10, "pattern_detection")),
                                       UnwantedState(verdict))
                          = Decision("delete", "high")

\* The unwanted agent was called on an unread newsletter of 731 days.
C18_Witness ==
    /\ invocation.fn = "analyze_unwanted"
    /\ invocation.given.indicators = UnreadNewsletter(731)
    /\ invocation.result.verdict.unwanted_score = 80
    /\ invocation.result.verdict.is_unwanted
    /\ invocation.result.verdict.confidence = "high"

\* C19: the score in every spam verdict and in every unwanted verdict lies
\* between 0 and 100.
C19_ScoresWithinRange ==
    /\ invocation.fn = "detect_spam" =>
          invocation.result.verdict.spam_score \in 0..100
    /\ invocation.fn = "analyze_unwanted" =>
          invocation.result.verdict.unwanted_score \in 0..100

-----------------------------------------------------------------------------
(* Properties of the agents' tiers and of the deletion loop.                *)

\* C21: when the unwanted agent answers an email on its fast path, without
\* asking the language model, a second evaluation of the same email, at
\* whatever time, gives the same verdict.
C21_FastPathVerdictRepeats ==
    invocation.fn = "analyze_unwanted(email)" =>
        \A b \in invocation.before :
            b.result.calls = {} => invocation.result = b.result

\* C22: the spam and unwanted agents ask the language model exactly when the
\* score is in the ambiguous band. Spam: 60 or more is spam / high without the
\* model, below 35 is not spam without the model, from 35 up to 59 the model is
\* asked. Unwanted: 70 or more is unwanted / high without the model, below 40
\* is not unwanted without the model, from 40 up to 69 the model is asked.
C22_LlmAskedExactlyInBand ==
    /\ invocation.fn = "detect_spam" =>
          LET v == invocation.result.verdict
              asked == invocation.result.calls
              s == v.spam_score
          IN  /\ s >= 60 => v.is_spam /\ v.confidence = "high" /\ asked = {}
              /\ s < 35 => ~v.is_spam /\ asked = {}
              /\ (35 <= s /\ s < 60) => asked = {"spam.llm"}
    /\ invocation.fn = "analyze_unwanted" =>
          LET v == invocation.result.verdict
              asked == invocation.result.calls
              s == v.unwanted_score
          IN  /\ s >= 70 => v.is_unwanted /\ v.confidence = "high" /\ asked = {}
              /\ s < 40 => ~v.is_unwanted /\ asked = {}
              /\ (40 <= s /\ s < 70) => asked = {"unwanted.llm"}

\* A suspicious sender with phishing indicators scores exactly 60 and is spam
\* / high although the language model would have said otherwise.
C22_Witness ==
    /\ invocation.fn = "detect_spam"
    /\ invocation.result.verdict.spam_score = 60
    /\ invocation.result.verdict.is_spam
    /\ invocation.result.calls = {}
    /\ ~invocation.given.llm.error
    /\ ~invocation.given.llm.primary

\* What one step of a delete_emails run may do to the loop: the loop is
\* entered at the first email with nothing attempted; a turn attempts the email
\* at the loop's position, sends the delete request for its id when a token is
\* held, records one outcome and moves to the next position whatever the
\* outcome was; the run returns only from beyond the last email, with every
\* email attempted once, and sends nothing more.
LoopStep ==
    /\ (dpc # "loop" /\ dpc' = "loop") =>
          /\ frame'.i = 1
          /\ frame'.outcomes = <<>>
    /\ (dpc = "loop" /\ dpc' = "loop" /\ frame' # frame) =>
          /\ frame.i <= Len(frame.emails)
          /\ frame'.emails = frame.emails
          /\ frame'.i = frame.i + 1
          /\ Len(frame'.outcomes) = Len(frame.outcomes) + 1
          /\ delete_calls' = IF token
                             THEN Append(delete_calls, frame.emails[frame.i].id)
                             ELSE delete_calls
    /\ (dpc = "loop" /\ dpc' = "loop" /\ frame' = frame) =>
          delete_calls' = delete_calls
    /\ (dpc = "loop" /\ dpc' = "idle") =>
          /\ frame.i = Len(frame.emails) + 1
          /\ Len(frame.outcomes) = Len(frame.emails)
          /\ delete_calls' = delete_calls

\* C23: in one delete_emails run every email of the list receives exactly one
\* delete attempt, in input order, whatever the earlier attempts gave: a failed
\* delete neither stops the loop nor is tried again, and the loop ends after
\* the last email (unless the process is killed).
C23_OneAttemptEachInOrder ==
    /\ [][LoopStep]_vars
    /\ (dpc = "loop") ~> (dpc \in {"idle", "killed"})

\* A run over two emails has returned: the first delete failed, the second
\* succeeded, and one request went out for each, in input order.
C23_Witness ==
    /\ dpc = "idle"
    /\ delete_calls = <<2, 1>>
    /\ \E r \in last_deletion :
         /\ r.total = 2
         /\ r.failed = 1
         /\ r.deleted_ids = <<1>>

\* C25: the final decision is delete only if the document verdict is not
\* preserve, the spam verdict is not spam, the classifier's category is
\* newsletter, promotional or informational, and the unwanted verdict is
\* unwanted with confidence high; every other email is preserved or reviewed.
C25_DeleteOnlyWhenAllAgree ==
    node = "END" =>
        /\ final_decision \in {"preserve", "review", "delete"}
        /\ final_decision = "delete" =>
              /\ ~document_analysis.should_preserve
              /\ ~spam_analysis.is_spam
              /\ classification.category \in {"newsletter", "promotional", "informational"}
              /\ unwanted_analysis.is_unwanted
              /\ unwanted_analysis.confidence = "high"

\* A promotional email nobody wants to keep has been decided delete.
C25_Witness ==
    /\ node = "END"
    /\ final_decision = "delete"
    /\ classification.category = "promotional"
    /\ classification.confidence = "high"
    /\ unwanted_analysis.method = "pattern_detection"

\* The methods of the four verdicts the decision was made from.
VerdictMethods ==
    { document_analysis.method, classification.method,
      spam_analysis.method, unwanted_analysis.method }

\* C29: when any of the four verdicts is an error default, the final decision
\* is never delete.
C29_ErrorDefaultNeverDeleted ==
    (node = "END" /\ "error_default" \in VerdictMethods) => final_decision # "delete"

\* C28: the document agent returns a verdict for every email and never raises;
\* in particular the keyword tier completes for an email of a sender outside
\* the VIP list whose subject or body preview is empty or missing.
C28_DocumentAgentNeverRaises ==
    invocation.fn = "analyze_email" =>
        /\ ~invocation.result.raised
        /\ invocation.result.verdict # NoDocument

-----------------------------------------------------------------------------
(* Properties of the bot from /analyze to the delete requests.              *)

\* The ids of the emails the analysis decided to delete.
DecidedDelete ==
    { batch.emails[p].id :
        p \in { q \in 1..Len(batch.placed) : batch.placed[q] = "delete" } }

\* The ids of the emails of a list.
IdsOf(emails) == { emails[k].id : k \in 1..Len(emails) }

RECURSIVE Picked(_, _, _)
\* The emails of the list whose 1-based position, from k on, is wanted, in
\* the order of the list.
Picked(all, k, wanted) ==
    IF k > Len(all) THEN <<>>
    ELSE (IF k \in wanted THEN <<all[k]>> ELSE <<>>) \o Picked(all, k + 1, wanted)

\* The sub-list of the live proposal the command selects.
Selected(cmd, arg, all) ==
    CASE cmd = "/yes" -> all
      [] cmd = "/delete_only" -> Picked(all, 1, Elements(parse_number_range(arg)))
      [] cmd = "/except" ->
            Picked(all, 1, (1..Len(all)) \ Elements(parse_except_command(arg)))

\* A handler goes into delete_emails.
CallsDeleteEmails == hpc = "idle" /\ hpc' = "awaiting"

\* C26: the list an approval command hands to delete_emails is a sub-list of
\* the live proposal: for /yes all of it, for /delete_only the emails whose
\* 1-based index is in the parsed set, for /except the emails whose index is
\* not in the excluded list; and a delete request goes out only for an email
\* of the list handed over (the requests of a run are recorded from its
\* start), so never for an excluded email, an email not named, or an email of
\* an earlier proposal that is not in the live one.
C26_DeletesSubListOfLiveProposal ==
    [][ /\ CallsDeleteEmails =>
              /\ current_proposal # {}
              /\ update'.cmd \in {"/yes", "/delete_only", "/except"}
              /\ LET handed == Selected(update'.cmd, update'.arg, Proposal.emails)
                 IN  IF dpc' = "idle" THEN handed = <<>>
                     ELSE frame'.emails = handed
        /\ (delete_calls' # delete_calls /\ delete_calls' # <<>>) =>
              /\ hpc = "awaiting"
              /\ current_proposal # {}
              /\ Len(delete_calls') = Len(delete_calls) + 1
              /\ delete_calls'[Len(delete_calls')] \in
                    IdsOf(Selected(update.cmd, update.arg, Proposal.emails)) ]_vars

\* /except 1 on the proposal of two emails: the second email alone was handed
\* over, and the one delete request went out for it.
C26_Witness ==
    /\ hpc = "awaiting"
    /\ update.cmd = "/except"
    /\ update.arg = <<"1">>
    /\ Len(Proposal.emails) = 2
    /\ delete_calls = <<Proposal.emails[2].id>>

\* C27: with the commands handled one at a time, a proposal leads to at most
\* one invocation of delete_emails whatever commands follow: delete_emails is
\* invoked only under a live proposal; until the invoking handler returns no
\* other command is handled and no proposal is sent; and when it returns the
\* proposal is gone, so that a further invocation needs a new proposal.
C27_OneDeletionPerProposal ==
    [][ /\ CallsDeleteEmails =>
              /\ current_proposal # {}
              /\ update'.calls = {"delete_emails"}
        /\ hpc = "awaiting" =>
              \/ /\ hpc' = "awaiting"
                 /\ current_proposal' = current_proposal
                 /\ update' = update
              \/ /\ hpc' = "idle"
                 /\ current_proposal' = {}
                 /\ update' = update ]_vars

\* The handler of /delete_only has returned from its deletion run, the first
\* of the bot, and no proposal is live.
C27_Witness ==
    /\ hpc = "idle"
    /\ update.cmd = "/delete_only"
    /\ update.calls = {"delete_emails"}
    /\ runs = 1
    /\ last_deletion # {}
    /\ current_proposal = {}

\* C30: for /except on a live proposal of T emails, the partial confirmation
\* states as 'Deleting' the number of emails handed to delete_emails and as
\* 'Keeping' the number of emails kept, so that the two add up to T.
C30_PartialConfirmationCounts ==
    [][ (/\ hpc = "idle"
         /\ current_proposal # {}
         /\ update'.cmd = "/except"
         /\ (update' # update \/ outbox' # outbox)
         /\ outbox' # <<>>
         /\ outbox'[1].kind = "partial") =>
            LET all == Proposal.emails
                handed == Selected("/except", update'.arg, all)
            IN  /\ outbox'[1].n = Len(handed)
                /\ outbox'[1].m = Len(all) - Len(handed)
                /\ outbox'[1].n + outbox'[1].m = Len(all) ]_vars


=============================================================================
